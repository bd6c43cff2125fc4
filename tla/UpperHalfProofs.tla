--------------------------- MODULE UpperHalfProofs ---------------------------
(***************************************************************************)
(* Proofs about UpperHalfMemory, for every layout of the address space,    *)
(* size of the table and number of changes.                                *)
(***************************************************************************)
EXTENDS UpperHalfMemory, FiniteSetTheorems, TLAPS

\* A page that an entry of the table may speak of: the upper half's, or, once
\* munmap was used or a mapping recorded late, nobody's.
Mine(p) == map[p].by = "upper" \/ (~Clean /\ map[p] = Free)

\* Every page of every entry, and of the one to come, is such a page, so that
\* the lower half has none.
EntriesOwned ==
  /\ \A i \in 0 .. MAX_TRACK - 1 : \A p \in PagesOf(mmaps[i]) : Mine(p)
  /\ \A p \in PagesOf(pending) : Mine(p)

PageTypes == {Free} \cup {By(w, a) : w \in {"upper", "lower"}, a \in Attrs}
Saved == [range : Ranges, attr : Attrs \ {"none"}]
-----------------------------------------------------------------------------
(* Operators.                                                              *)

\* A page is nobody's exactly when it is free, and has one of the attributes
\* otherwise.
LEMMA PageIs ==
  ASSUME NEW m \in PageTypes
  PROVE  /\ m = Free <=> m.by = "nobody"
         /\ m # Free => m.attr \in Attrs
BY DEF PageTypes, Free, By

LEMMA RangeTypes ==
  ASSUME NEW r \in Ranges
  PROVE  /\ r.lo \in Nat \ {0} /\ r.hi \in Nat /\ r.lo < r.hi /\ r.hi <= NumPages
         /\ PagesOf(r) \subseteq Pages
         /\ r.lo \in PagesOf(r)
         /\ r = [lo |-> r.lo, hi |-> r.hi]
BY MemoryAssumption DEF Ranges, Pages, PagesOf

LEMMA Least ==
  ASSUME NEW M \in SUBSET Nat, M # {}
  PROVE  \E k \in M : \A j \in M : k <= j
<1> DEFINE R == OpToRel(<, Nat)
<1>1. IsWellFoundedOn(R, Nat)
  BY NatLessThanWellFounded
<1> HIDE DEF R
<1>2. PICK k \in M : \A j \in M : ~(<<j, k>> \in R)
  BY <1>1, WFMin
<1>3. \A j \in Nat : j < k => <<j, k>> \in R
  BY DEF R, OpToRel
<1>4. \A j \in M : ~(j < k)
  BY <1>2, <1>3, Zenon
<1> QED
  BY <1>4

\* An entry that has never been made is in no area and around none.
LEMMA NoEntryMatches ==
  ASSUME NEW r \in Ranges
  PROVE  ~Within(r, NoEntry) /\ ~Within(NoEntry, r)
BY RangeTypes DEF Within, regionContains, NoEntry

\* The part of an area that an entry stands for is in both.
LEMMA PartInBoth ==
  ASSUME NEW a \in Ranges, NEW e \in Ranges,
         Within(a, e) \/ Within(e, a)
  PROVE  /\ Part(a, e) \in Ranges
         /\ PagesOf(Part(a, e)) \subseteq PagesOf(a)
         /\ PagesOf(Part(a, e)) \subseteq PagesOf(e)
<1> USE RangeTypes DEF Within, regionContains, PagesOf
<1>1. CASE Within(a, e)
  BY <1>1 DEF Part
<1>2. CASE ~Within(a, e)
  BY <1>2 DEF Part
<1> QED
  BY <1>1, <1>2

\* The next place in the table is a place in the table.
LEMMA IndexInTable ==
  ASSUME NEW n \in Nat
  PROVE  n % MAX_TRACK \in 0 .. MAX_TRACK - 1
BY MemoryAssumption

\* It is the one behind, or the first.
LEMMA NextIndexIs ==
  ASSUME NEW n \in 0 .. MAX_TRACK - 1
  PROVE  NextIndex(n) = 0 \/ NextIndex(n) = n + 1
<1>1. MAX_TRACK \in Nat /\ MAX_TRACK >= 2
  BY MemoryAssumption
<1>2. CASE n + 1 = MAX_TRACK
  BY <1>1, <1>2 DEF NextIndex
<1>3. CASE n + 1 < MAX_TRACK
  BY <1>1, <1>3 DEF NextIndex
<1> QED
  BY <1>1, <1>2, <1>3

LEMMA RangesFinite == IsFiniteSet(Ranges)
<1> DEFINE pair == [r \in Ranges |-> <<r.lo, r.hi>>]
           T == (0 .. NumPages) \X (0 .. NumPages)
<1>1. IsFiniteSet(T)
  <2>1. IsFiniteSet(0 .. NumPages)
    BY FS_Interval, MemoryAssumption
  <2> QED
    BY <2>1, FS_Product
<1>2. pair \in Injection(Ranges, T)
  <2>1. \A r \in Ranges : <<r.lo, r.hi>> \in T
    BY RangeTypes, MemoryAssumption
  <2>2. \A r, s \in Ranges : pair[r] = pair[s] => r = s
    <3> TAKE r \in Ranges, s \in Ranges
    <3> HAVE pair[r] = pair[s]
    <3>1. r.lo = s.lo /\ r.hi = s.hi
      OBVIOUS
    <3> QED
      BY <3>1, RangeTypes
  <2> QED
    BY <2>1, <2>2 DEF Injection, IsInjective
<1> HIDE DEF pair, T
<1> QED
  BY <1>1, <1>2, FS_Injection

\* An image has finitely many regions.
LEMMA SavedFinite ==
  ASSUME NEW S, S \subseteq Saved
  PROVE  Cardinality(S) \in Nat
<1> DEFINE pair == [s \in Saved |-> <<s.range, s.attr>>]
           T == Ranges \X Attrs
<1>1. IsFiniteSet(Attrs)
  <2>1. /\ IsFiniteSet({} \cup {"rw"})
        /\ IsFiniteSet(({} \cup {"rw"}) \cup {"ro"})
    BY FS_EmptySet, FS_AddElement
  <2>2. IsFiniteSet(((({} \cup {"rw"}) \cup {"ro"}) \cup {"none"}) \cup {"stack"})
    BY <2>1, FS_AddElement
  <2>3. IsFiniteSet({"rw", "ro", "none", "stack"})
    <3>1. {"rw", "ro", "none", "stack"} =
            ((({} \cup {"rw"}) \cup {"ro"}) \cup {"none"}) \cup {"stack"}
      OBVIOUS
    <3> QED
      BY <2>2, <3>1, Zenon
  <2> QED
    BY <2>3, FS_Union, MemoryAssumption DEF Attrs
<1>2. IsFiniteSet(T)
  BY <1>1, RangesFinite, FS_Product
<1>3. pair \in Injection(Saved, T)
  <2>1. pair \in [Saved -> T]
    BY DEF Saved
  <2>2. \A r, s \in Saved : pair[r] = pair[s] => r = s
    BY DEF Saved
  <2> QED
    BY <2>1, <2>2 DEF Injection, IsInjective
<1> HIDE DEF pair, T
<1>4. IsFiniteSet(Saved)
  BY <1>2, <1>3, FS_Injection
<1> QED
  BY <1>4, FS_Subset, FS_CardinalityType

LEMMA MappedPages ==
  ASSUME NEW m \in [Pages -> PageTypes], NEW r \in Ranges, NEW attr \in Attrs
  PROVE  /\ Mapped(m, r, attr) \in [Pages -> PageTypes]
         /\ \A p \in PagesOf(r) : Mapped(m, r, attr)[p].by = "upper"
         /\ \A p \in Pages \ PagesOf(r) : Mapped(m, r, attr)[p] = m[p]
<1>1. By("upper", attr) \in PageTypes /\ By("upper", attr).by = "upper"
  BY DEF PageTypes, By
<1> QED
  BY <1>1, RangeTypes DEF Mapped

LEMMA LowerPages ==
  ASSUME NEW b \in LowerBuilds
  PROVE  Lower(b) \in [Pages -> PageTypes]
BY DEF Lower, PageTypes, By, Attrs

\* An area is a range of mapped pages.
LEMMA AreaMapped ==
  ASSUME TypeOK, NEW a \in Areas
  PROVE  /\ a \in Ranges
         /\ \A p \in PagesOf(a) : map[p] # Free
         /\ Attr(a) \in Attrs
<1>1. a \in Ranges /\ \A p \in PagesOf(a) : map[p] # Free
  BY DEF Areas, IsArea
<1>2. map[a.lo] \in PageTypes /\ map[a.lo] # Free
  BY <1>1, RangeTypes DEF TypeOK, PageTypes
<1> QED
  BY <1>1, <1>2, PageIs DEF Attr

\* What is reported of the table is in the table.
LEMMA ListedInTable ==
  ASSUME TypeOK
  PROVE  Listed \subseteq 0 .. MAX_TRACK - 1
<1>1. numRegions \in 0 .. MAX_TRACK - 1
  BY DEF TypeOK
<1>2. MAX_TRACK \in Nat
  BY MemoryAssumption
<1> QED
  BY <1>1, <1>2 DEF Listed

\* The first matching entry is one, and what it makes of the area lies in both.
LEMMA MatchingPart ==
  ASSUME TypeOK, NEW a \in Areas, Matching(a) # {}
  PROVE  LET i == First(Matching(a)) IN
         /\ i \in Matching(a) /\ \A j \in Matching(a) : i <= j
         /\ mmaps[i] \in Ranges /\ Part(a, mmaps[i]) \in Ranges
         /\ PagesOf(Part(a, mmaps[i])) \subseteq PagesOf(a)
         /\ PagesOf(Part(a, mmaps[i])) \subseteq PagesOf(mmaps[i])
<1> DEFINE i == First(Matching(a))
<1>1. i \in Matching(a) /\ \A j \in Matching(a) : i <= j
  <2> DEFINE M == Matching(a)
  <2>1. M \subseteq Nat /\ M # {}
    BY MemoryAssumption DEF Matching, Listed, TypeOK
  <2>2. \E k \in M : \A j \in M : k <= j
    BY <2>1, Least
  <2> QED
    BY <2>2 DEF First
<1>2. i \in 0 .. MAX_TRACK - 1
  BY <1>1, ListedInTable DEF Matching
<1>3. Within(a, mmaps[i]) \/ Within(mmaps[i], a)
  BY <1>1 DEF Matching
<1>4. a \in Ranges
  BY AreaMapped
<1>5. mmaps[i] \in Ranges
  BY <1>2, <1>3, <1>4, NoEntryMatches DEF TypeOK
<1> QED
  BY <1>1, <1>3, <1>4, <1>5, PartInBoth

\* What a checkpoint writes is a part of an area and of an entry of the table.
LEMMA WrittenFrom ==
  ASSUME TypeOK, NEW s \in Written
  PROVE  \E a \in Areas, i \in 0 .. MAX_TRACK - 1 :
           /\ s \in Saved
           /\ PagesOf(s.range) \subseteq PagesOf(a)
           /\ PagesOf(s.range) \subseteq PagesOf(mmaps[i])
<1>1. PICK a \in Areas : s \in {[range |-> r, attr |-> Attr(a)] : r \in ToWrite(a)}
  BY DEF Written
<1> DEFINE i == First(Matching(a))
<1>2. /\ Readable(a) /\ Matching(a) # {}
      /\ s = [range |-> Part(a, mmaps[i]), attr |-> Attr(a)]
  BY <1>1 DEF ToWrite
<1>3. i \in 0 .. MAX_TRACK - 1
  <2>1. i \in Matching(a)
    BY <1>2, MatchingPart
  <2>2. i \in Listed
    BY <2>1 DEF Matching
  <2> QED
    BY <2>2, ListedInTable
<1>4. Attr(a) \in Attrs \ {"none"}
  BY <1>2, AreaMapped DEF Readable
<1>5. /\ Part(a, mmaps[i]) \in Ranges
      /\ PagesOf(Part(a, mmaps[i])) \subseteq PagesOf(a)
      /\ PagesOf(Part(a, mmaps[i])) \subseteq PagesOf(mmaps[i])
  BY <1>2, MatchingPart
<1> QED
  BY <1>2, <1>3, <1>4, <1>5 DEF Saved
-----------------------------------------------------------------------------
(* Type correctness.                                                       *)

Typed ==
  /\ map \in [Pages -> PageTypes]
  /\ mmaps \in [0 .. MAX_TRACK - 1 -> Ranges \cup {NoEntry}]
  /\ numRegions \in 0 .. MAX_TRACK - 1
  /\ pending \in Ranges \cup {NoEntry} /\ inMmap \in Ranges \cup {NoEntry}
  /\ brk \in 0 .. NumPages /\ endOfHeap \in 0 .. NumPages
  /\ image \subseteq Saved
  /\ late \in BOOLEAN
  /\ build \in LowerBuilds /\ status \in {"running", "dead", "refused"}
  /\ changes \in 0 .. MaxChanges /\ unmaps \in 0 .. MaxUnmaps
  /\ lowerMaps \in 0 .. MaxLowerMaps /\ restarts \in 0 .. MaxRestarts

LEMMA TypeIs == (TypeOK <=> Typed) /\ (TypeOK' <=> Typed')
BY DEF TypeOK, Typed, PageTypes, Saved

\* The table stays a table when a mapping is recorded.
LEMMA RecordType ==
  ASSUME TypeOK, NEW r \in Ranges, Record(r)
  PROVE  /\ mmaps' \in [0 .. MAX_TRACK - 1 -> Ranges \cup {NoEntry}]
         /\ numRegions' \in 0 .. MAX_TRACK - 1
         /\ \A i \in 0 .. MAX_TRACK - 1 : mmaps'[i] \in {mmaps[i], r}
<1>1. numRegions + 1 \in Nat
  BY MemoryAssumption DEF TypeOK
<1> QED
  BY <1>1, IndexInTable DEF TypeOK, Record, RecordAt, NextIndex

LEMMA LaunchPages ==
  ASSUME NEW b \in LowerBuilds
  PROVE  /\ LaunchMap(b) \in [Pages -> PageTypes]
         /\ \A p \in PagesOf(StackAt) \cup PagesOf(HeapAt) :
              LaunchMap(b)[p].by = "upper"
<1> DEFINE m == Mapped(Lower(b), StackAt, "stack")
           n == Mapped(m, HeapAt, "rw")
<1>1. "stack" \in Attrs /\ "rw" \in Attrs /\ "none" \in Attrs
  BY DEF Attrs
<1>2. StackAt \in Ranges /\ HeapAt \in Ranges
  BY MemoryAssumption
<1>3. /\ m \in [Pages -> PageTypes]
      /\ \A p \in PagesOf(StackAt) : m[p].by = "upper"
  BY <1>1, <1>2, LowerPages, MappedPages
<1> HIDE DEF m
<1>4. /\ n \in [Pages -> PageTypes]
      /\ \A p \in PagesOf(HeapAt) : n[p].by = "upper"
      /\ \A p \in Pages \ PagesOf(HeapAt) : n[p] = m[p]
  BY <1>1, <1>2, <1>3, MappedPages
<1>5. \A p \in PagesOf(StackAt) \cup PagesOf(HeapAt) : p \in Pages /\ n[p].by = "upper"
  BY <1>2, <1>3, <1>4, RangeTypes
<1>6. LaunchMap(b) = [n EXCEPT ![HeapAt.lo] = By("upper", "none")]
  BY DEF LaunchMap, m
<1> HIDE DEF n
<1>7. By("upper", "none") \in PageTypes /\ By("upper", "none").by = "upper"
  BY <1>1 DEF PageTypes, By
<1> QED
  BY <1>4, <1>5, <1>6, <1>7

LEMMA InitType == Init => TypeOK
<1> SUFFICES ASSUME Init PROVE TypeOK
  OBVIOUS
<1>1. map \in [Pages -> PageTypes]
  BY LaunchPages DEF Init
<1>2. /\ StackAt \in Ranges /\ HeapAt \in Ranges
      /\ HeapAt.lo + 1 \in 0 .. NumPages /\ HeapAt.hi \in 0 .. NumPages
  BY MemoryAssumption, RangeTypes
<1>3. NextIndex(0) \in 0 .. MAX_TRACK - 1
      /\ NextIndex(NextIndex(0)) \in 0 .. MAX_TRACK - 1
  BY IndexInTable, MemoryAssumption DEF NextIndex
<1>4. mmaps \in [0 .. MAX_TRACK - 1 -> Ranges \cup {NoEntry}]
  BY <1>2, <1>3 DEF Init, RecordAt, EmptyTable
<1>5. {MaxChanges, MaxUnmaps, MaxLowerMaps, MaxRestarts} \subseteq Nat
  BY MemoryAssumption
<1>6. /\ pending = NoEntry /\ inMmap = NoEntry /\ late = FALSE /\ image = {}
      /\ build \in LowerBuilds /\ status = "running"
  BY DEF Init
<1>7. /\ numRegions \in 0 .. MAX_TRACK - 1
      /\ brk \in 0 .. NumPages /\ endOfHeap \in 0 .. NumPages
  BY <1>2, <1>3 DEF Init
<1>8. /\ changes \in 0 .. MaxChanges /\ unmaps \in 0 .. MaxUnmaps
      /\ lowerMaps \in 0 .. MaxLowerMaps /\ restarts \in 0 .. MaxRestarts
  BY <1>5 DEF Init
<1> QED
  BY <1>1, <1>4, <1>6, <1>7, <1>8, TypeIs DEF Typed

\* What the upper half maps, with or without a new entry.
LEMMA MapType ==
  ASSUME TypeOK, NEW r \in Ranges, NEW attr \in Attrs,
         map' = Mapped(map, r, attr)
  PROVE  map' \in [Pages -> PageTypes]
BY MappedPages, TypeIs DEF Typed

LEMMA ChangeType ==
  ASSUME TypeOK, Change
  PROVE  /\ changes' \in 0 .. MaxChanges
         /\ image' \subseteq Saved /\ inMmap' \in Ranges \cup {NoEntry}
         /\ late' \in BOOLEAN
         /\ build' \in LowerBuilds /\ status' \in {"running", "dead", "refused"}
         /\ lowerMaps' \in 0 .. MaxLowerMaps
         /\ restarts' \in 0 .. MaxRestarts
<1>1. Typed /\ changes < MaxChanges /\ changes' = changes + 1 /\ MaxChanges \in Nat
  BY TypeIs, MemoryAssumption DEF Change
<1>2. changes' \in 0 .. MaxChanges
  BY <1>1 DEF Typed
<1>3. UNCHANGED <<image, inMmap, late, build, status, lowerMaps, restarts>>
  BY DEF Change, process, saved
<1> QED BY <1>1, <1>2, <1>3 DEF Typed

\* sbrk's new pages are a range.
LEMMA GrownRange ==
  ASSUME TypeOK, brk # 0, brk + 1 > endOfHeap, brk + 1 <= NumPages, endOfHeap # 0
  PROVE  [lo |-> endOfHeap, hi |-> brk + 1] \in Ranges
<1>1. endOfHeap \in Nat /\ brk \in Nat /\ NumPages \in Nat
  BY MemoryAssumption DEF TypeOK, Pages
<1> QED BY <1>1 DEF Ranges, Pages

\* A heap that is known has an end: TypeOK by itself is not inductive, since
\* sbrk maps from there.
HeapKnown == brk # 0 => endOfHeap # 0
TypeInv == TypeOK /\ HeapKnown

LEMMA InitTypeInv == Init => TypeInv
BY InitType, MemoryAssumption, RangeTypes DEF Init, TypeInv, HeapKnown

LEMMA AttrTypes == MmapAttrs \subseteq Attrs /\ {"rw", "ro", "none"} \subseteq Attrs
BY MemoryAssumption DEF Attrs

LEMMA RestoredPages ==
  ASSUME TypeOK, NEW b \in LowerBuilds
  PROVE  /\ RestoredMap(b) \in [Pages -> PageTypes]
         /\ \A p \in PagesIn(image) : p \in Pages => RestoredMap(b)[p].by = "upper"
<1>1. ASSUME NEW p \in Pages, p \in PagesIn(image)
      PROVE  RestoredMap(b)[p] \in PageTypes /\ RestoredMap(b)[p].by = "upper"
  <2> DEFINE s == CHOOSE t \in image : p \in PagesOf(t.range)
  <2>1. \E t \in image : p \in PagesOf(t.range)
    BY <1>1 DEF PagesIn
  <2>2. s \in Saved
    BY <2>1 DEF TypeOK, Saved
  <2>3. RestoredAttr(s.attr) \in Attrs
    BY <2>2 DEF Saved, RestoredAttr, Attrs
  <2>4. RestoredMap(b)[p] = By("upper", RestoredAttr(s.attr))
    BY <1>1 DEF RestoredMap
  <2> HIDE DEF s
  <2> QED
    BY <2>3, <2>4 DEF PageTypes, By
<1>2. ASSUME NEW p \in Pages, p \notin PagesIn(image)
      PROVE  RestoredMap(b)[p] \in PageTypes
  BY <1>2, LowerPages DEF RestoredMap
<1>3. RestoredMap(b) = [p \in Pages |-> RestoredMap(b)[p]]
  BY DEF RestoredMap
<1> QED
  BY <1>1, <1>2, <1>3

LEMMA RestoredEntries ==
  ASSUME TypeOK
  PROVE  /\ RestoredTable \in [0 .. MAX_TRACK - 1 -> Ranges \cup {NoEntry}]
         /\ \A i \in 0 .. MAX_TRACK - 1 :
              \/ RestoredTable[i] = NoEntry
              \/ \E s \in image : RestoredTable[i] = s.range
<1>1. ASSUME NEW i \in 0 .. MAX_TRACK - 1
      PROVE  \/ RestoredTable[i] = NoEntry
             \/ \E s \in image : RestoredTable[i] = s.range
  <2>1. CASE \E s \in image : Place(s) = LastPlaceAt(i)
    BY <2>1 DEF RestoredTable
  <2>2. CASE ~ \E s \in image : Place(s) = LastPlaceAt(i)
    BY <2>2 DEF RestoredTable
  <2> QED
    BY <2>1, <2>2
<1>2. \A s \in image : s.range \in Ranges
  BY DEF TypeOK
<1>3. RestoredTable = [i \in 0 .. MAX_TRACK - 1 |-> RestoredTable[i]]
  BY DEF RestoredTable
<1> QED
  BY <1>1, <1>2, <1>3

\* Each step keeps TypeInv.
LEMMA TypeStep == TypeInv /\ [Next]_vars => TypeInv'
<1> SUFFICES ASSUME TypeInv, [Next]_vars PROVE TypeInv'
  OBVIOUS
<1> USE DEF TypeInv
<1>1. CASE \E r \in Ranges, attr \in MmapAttrs : UhMmap(r, attr) \/ UhMmapFixed(r, attr)
  <2>1. PICK r \in Ranges, attr \in MmapAttrs : UhMmap(r, attr) \/ UhMmapFixed(r, attr)
    BY <1>1
  <2>2. Change /\ map' = Mapped(map, r, attr) /\ pending' = r
        /\ UNCHANGED <<table, heap, unmaps>>
    BY <2>1 DEF UhMmap, UhMmapFixed, Maps
  <2> QED
    BY <2>2, MapType, ChangeType, AttrTypes, TypeIs DEF table, heap, HeapKnown, Typed
<1>2. CASE \E r \in Ranges, attr \in {"rw", "ro", "none"} : Mprotect(r, attr)
  BY <1>2, MapType, ChangeType, AttrTypes, TypeIs DEF Mprotect, table, heap, HeapKnown, Typed
<1>3. CASE \E r \in Ranges : Munmap(r)
  <2>1. PICK r \in Ranges : Munmap(r)
    BY <1>3
  <2>2. map' \in [Pages -> PageTypes]
    BY <2>1, TypeIs DEF Munmap, PageTypes, Typed
  <2>3. unmaps' \in 0 .. MaxUnmaps
    BY <2>1, MemoryAssumption DEF Munmap, TypeOK
  <2> QED
    BY <2>1, <2>2, <2>3, ChangeType, TypeIs DEF Munmap, table, heap, HeapKnown, Typed
<1>4. CASE SbrkInside
  <2>1. Change /\ UNCHANGED <<map, table, pending, unmaps>>
    BY <1>4 DEF SbrkInside
  <2>2. brk' \in 0 .. NumPages /\ endOfHeap' \in 0 .. NumPages /\ endOfHeap' # 0
    <3>1. /\ brk \in Nat /\ endOfHeap \in Nat /\ endOfHeap <= NumPages /\ NumPages \in Nat
      BY MemoryAssumption DEF TypeOK
    <3> QED BY <1>4, <3>1 DEF SbrkInside
  <2> QED
    BY <2>1, <2>2, ChangeType, TypeIs DEF table, HeapKnown, Typed
<1>5. CASE SbrkMaps
  <2> DEFINE r == [lo |-> endOfHeap, hi |-> brk + 1]
  <2>1. r \in Ranges
    BY <1>5, GrownRange DEF SbrkMaps, HeapKnown
  <2>2. Change /\ map' = Mapped(map, r, "rw") /\ pending' = r /\ UNCHANGED <<table, unmaps>>
    BY <1>5 DEF SbrkMaps, Maps
  <2>3. brk' \in 0 .. NumPages /\ endOfHeap' \in 0 .. NumPages /\ endOfHeap' # 0
    BY <1>5, MemoryAssumption DEF SbrkMaps, TypeOK
  <2> HIDE DEF r
  <2> QED
    BY <2>1, <2>2, <2>3, MapType, ChangeType, AttrTypes, TypeIs
    DEF table, HeapKnown, Typed
<1>6. CASE StackGrows
  <2>1. By("upper", "stack") \in PageTypes
    BY DEF PageTypes, Attrs, By
  <2>2. map' \in [Pages -> PageTypes]
    BY <1>6, <2>1, TypeIs DEF StackGrows, Typed
  <2> QED
    BY <1>6, <2>2, ChangeType, TypeIs DEF StackGrows, table, heap, HeapKnown, Typed
<1>7. CASE \E p \in Pages : LhMmap(p)
  <2>1. By("lower", "rw") \in PageTypes
    BY DEF PageTypes, Attrs, By
  <2>2. map' \in [Pages -> PageTypes]
    BY <1>7, <2>1, TypeIs DEF LhMmap, Typed
  <2>3. lowerMaps' \in 0 .. MaxLowerMaps
    <3>1. lowerMaps \in Nat /\ lowerMaps < MaxLowerMaps /\ lowerMaps' = lowerMaps + 1
      BY <1>7, TypeIs DEF LhMmap, Typed
    <3>2. MaxLowerMaps \in Nat
      BY MemoryAssumption
    <3> QED BY <3>1, <3>2
  <2> QED
    BY <1>7, <2>2, <2>3, TypeIs
    DEF LhMmap, process, table, heap, saved, HeapKnown, Typed
<1>8. CASE Checkpoint
  <2>1. Written \subseteq Saved
    BY WrittenFrom
  <2> QED
    BY <1>8, <2>1, TypeIs DEF Checkpoint, process, table, heap, counts, HeapKnown, Typed
<1>9. CASE Die
  BY <1>9, TypeIs, MemoryAssumption DEF Die, table, heap, saved, HeapKnown, Typed
<1>10. CASE \E b \in LowerBuilds : Restore(b)
  <2>1. PICK b \in LowerBuilds : Restore(b)
    BY <1>10
  <2>2. Cardinality(image) % MAX_TRACK \in 0 .. MAX_TRACK - 1
    BY SavedFinite, IndexInTable, TypeIs DEF Typed
  <2>3. pending' \in Ranges \cup {NoEntry} /\ late' \in BOOLEAN /\ UNCHANGED <<image, inMmap>>
    BY <2>1, TypeIs DEF Restore, saved, Typed
  <2>4. map' \in [Pages -> PageTypes] /\ mmaps' \in [0 .. MAX_TRACK - 1 -> Ranges \cup {NoEntry}]
    BY <2>1, RestoredPages, RestoredEntries DEF Restore
  <2> QED
    BY <2>1, <2>2, <2>3, <2>4, MemoryAssumption, TypeIs
    DEF Restore, counts, HeapKnown, Typed
<1>11. CASE \E b \in LowerBuilds : RestoreFails(b)
  BY <1>11, TypeIs DEF RestoreFails, table, heap, saved, counts, HeapKnown, Typed
<1>12. CASE RecordMapping
  <2>1. pending \in Ranges /\ Record(pending) /\ pending' = NoEntry
        /\ UNCHANGED <<map, heap, saved, late, process, counts>>
    BY <1>12 DEF RecordMapping, TypeOK
  <2> QED
    BY <2>1, RecordType, TypeIs DEF process, heap, saved, counts, HeapKnown, Typed
<1>13. CASE UNCHANGED vars
  BY <1>13, TypeIs DEF vars, process, table, heap, saved, counts, HeapKnown, Typed
<1> QED
  BY <1>1, <1>2, <1>3, <1>4, <1>5, <1>6, <1>7, <1>8, <1>9, <1>10, <1>11, <1>12, <1>13
  DEF Next

\* The memory of a process, its table and its image are well typed, for every
\* layout, size of the table and number of changes.
THEOREM TypeCorrect == Spec => []TypeOK
<1>1. Spec => []TypeInv
  BY InitTypeInv, TypeStep, PTL DEF Spec
<1>2. TypeInv => TypeOK
  BY DEF TypeInv
<1> QED
  BY <1>1, <1>2, PTL
-----------------------------------------------------------------------------
(* Entries speak of the upper half's pages.                                *)

OwnedInv == TypeInv /\ (Apart => EntriesOwned)

LEMMA EntryPages ==
  ASSUME TypeOK
  PROVE  /\ \A i \in 0 .. MAX_TRACK - 1 : PagesOf(mmaps[i]) \subseteq Pages
         /\ PagesOf(pending) \subseteq Pages
<1>1. PagesOf(NoEntry) = {}
  BY DEF PagesOf, NoEntry
<1> QED
  BY <1>1, RangeTypes DEF TypeOK

\* A step that records nothing and takes no page away from the upper half.
LEMMA KeptOwned ==
  ASSUME TypeOK, EntriesOwned, mmaps' = mmaps, pending' \in {pending, NoEntry},
         \A p \in Pages : Mine(p) => Mine(p)'
  PROVE  EntriesOwned'
<1>1. PagesOf(NoEntry) = {}
  BY DEF PagesOf, NoEntry
<1> QED
  BY <1>1, EntryPages DEF EntriesOwned

\* What is to be recorded has just been mapped for the upper half.
LEMMA MapsOwned ==
  ASSUME TypeOK, EntriesOwned, NEW r \in Ranges,
         NEW attr \in Attrs, Maps(r, attr), UNCHANGED <<unmaps, late>>
  PROVE  EntriesOwned'
<1>1. map' = Mapped(map, r, attr) /\ pending' = r /\ mmaps' = mmaps
  BY DEF Maps, table
<1>2. /\ \A p \in PagesOf(r) : Mine(p)'
      /\ \A p \in Pages : Mine(p) => Mine(p)'
  BY <1>1, MappedPages, TypeIs DEF Typed, Mine, Clean
<1> QED
  BY <1>1, <1>2, EntryPages DEF EntriesOwned

LEMMA InitOwned == Init => EntriesOwned
<1> SUFFICES ASSUME Init PROVE EntriesOwned
  OBVIOUS
<1>1. \A p \in PagesOf(StackAt) \cup PagesOf(HeapAt) : Mine(p)
  BY LaunchPages DEF Init, Mine
<1>2. PagesOf(NoEntry) = {}
  BY DEF PagesOf, NoEntry
<1>3. \A i \in 0 .. MAX_TRACK - 1 : mmaps[i] \in {StackAt, HeapAt, NoEntry}
  BY DEF Init, RecordAt, EmptyTable
<1>4. pending = NoEntry
  BY DEF Init
<1> QED
  BY <1>1, <1>2, <1>3, <1>4 DEF EntriesOwned

\* What has met stays met.
LEMMA ApartBefore ==
  ASSUME TypeInv, [Next]_vars
  PROVE  (Clean' => Clean) /\ (Apart' => Apart)
<1>1. unmaps \in Nat /\ lowerMaps \in Nat
  BY MemoryAssumption DEF TypeInv, TypeOK
<1>2. unmaps' \in {unmaps, unmaps + 1} /\ lowerMaps' \in {lowerMaps, lowerMaps + 1}
  BY DEF Next, vars, counts, UhMmap, UhMmapFixed, Mprotect, Munmap, SbrkInside, SbrkMaps,
         StackGrows, Change, RecordMapping, LhMmap, Checkpoint, Die, Restore, RestoreFails
<1>3. late => late'
  BY DEF Next, vars, UhMmap, UhMmapFixed, Mprotect, Munmap, SbrkInside, SbrkMaps,
         StackGrows, Change, RecordMapping, LhMmap, Checkpoint, Die, Restore, RestoreFails
<1> QED
  BY <1>1, <1>2, <1>3 DEF Apart, Clean

LEMMA OwnedStep ==
  ASSUME Apart', OwnedInv, [Next]_vars
  PROVE  EntriesOwned'
<1> USE DEF OwnedInv, TypeInv
<1>0. EntriesOwned
  BY ApartBefore
<1>1. CASE \E r \in Ranges, attr \in MmapAttrs : UhMmap(r, attr) \/ UhMmapFixed(r, attr)
  <2>1. PICK r \in Ranges, attr \in MmapAttrs : UhMmap(r, attr) \/ UhMmapFixed(r, attr)
    BY <1>1
  <2> QED
    BY <2>1, <1>0, MapsOwned, AttrTypes DEF UhMmap, UhMmapFixed, Change
<1>2. CASE \E r \in Ranges, attr \in {"rw", "ro", "none"} : Mprotect(r, attr)
  <2>1. PICK r \in Ranges, attr \in {"rw", "ro", "none"} : Mprotect(r, attr)
    BY <1>2
  <2>2. \A p \in Pages : Mine(p) => Mine(p)'
    BY <2>1, MappedPages, AttrTypes, TypeIs DEF Typed, Mine, Clean, Mprotect, Change
  <2> QED
    BY <2>1, <2>2, <1>0, KeptOwned DEF Mprotect, table
<1>3. CASE \E r \in Ranges : Munmap(r)
  <2>1. PICK r \in Ranges : Munmap(r)
    BY <1>3
  <2>2. unmaps' > 0
    BY <2>1, MemoryAssumption DEF Munmap, TypeOK
  <2>3. \A p \in Pages : Mine(p) => Mine(p)'
    BY <2>1, <2>2, TypeIs DEF Typed, Mine, Clean, Munmap
  <2> QED
    BY <2>1, <2>3, <1>0, KeptOwned DEF Munmap, table
<1>4. CASE SbrkInside
  BY <1>4, <1>0, KeptOwned DEF SbrkInside, Change, table, Mine, Clean
<1>5. CASE SbrkMaps
  <2> DEFINE r == [lo |-> endOfHeap, hi |-> brk + 1]
  <2>1. r \in Ranges
    BY <1>5, GrownRange DEF SbrkMaps, HeapKnown
  <2>2. Maps(r, "rw")
    BY <1>5 DEF SbrkMaps
  <2>3. UNCHANGED <<unmaps, late>>
    BY <1>5 DEF SbrkMaps, Change
  <2> HIDE DEF r
  <2> QED
    BY <2>1, <2>2, <2>3, <1>0, MapsOwned, AttrTypes
<1>6. CASE StackGrows
  <2>1. By("upper", "stack").by = "upper"
    BY DEF By
  <2>2. \A p \in Pages : Mine(p) => Mine(p)'
    BY <1>6, <2>1, TypeIs DEF Typed, Mine, Clean, StackGrows, Change
  <2> QED
    BY <1>6, <2>2, <1>0, KeptOwned DEF StackGrows, table
<1>7. CASE \E p \in Pages : LhMmap(p)
  <2>1. PICK p \in Pages : LhMmap(p)
    BY <1>7
  <2>2. Clean
    BY <2>1, MemoryAssumption DEF LhMmap, TypeOK, Apart, Clean
  <2>3. ~Mine(p)
    BY <2>1, <2>2 DEF LhMmap, Mine, Free
  <2>4. \A q \in Pages : Mine(q) => Mine(q)'
    BY <2>1, <2>3, TypeIs DEF Typed, Mine, Clean, LhMmap
  <2> QED
    BY <2>1, <2>4, <1>0, KeptOwned DEF LhMmap, process, table
<1>8. CASE Checkpoint
  BY <1>8, <1>0, KeptOwned DEF Checkpoint, process, table, counts, Mine, Clean
<1>9. CASE Die
  BY <1>9, <1>0, KeptOwned DEF Die, table, counts, Mine, Clean
<1>10. CASE \E b \in LowerBuilds : Restore(b)
  <2>1. PICK b \in LowerBuilds : Restore(b)
    BY <1>10
  <2>2. \A p \in PagesIn(image) : p \in Pages => Mine(p)'
    BY <2>1, RestoredPages DEF Restore, Mine
  <2>3. \A s \in image : PagesOf(s.range) \subseteq PagesIn(image) /\ PagesOf(s.range) \subseteq Pages
    BY RangeTypes DEF PagesIn, TypeOK
  <2>4. PagesOf(NoEntry) = {}
    BY DEF PagesOf, NoEntry
  <2>5. \A i \in 0 .. MAX_TRACK - 1 : \A p \in PagesOf(mmaps'[i]) : Mine(p)'
    BY <2>1, <2>2, <2>3, <2>4, RestoredEntries DEF Restore
  <2>6. ASSUME NEW p \in PagesOf(pending') PROVE Mine(p)'
    <3>1. pending' = inMmap /\ inMmap # NoEntry /\ late' /\ p \notin b
      BY <2>1, <2>4, <2>6 DEF Restore, Resumes
    <3>2. p \in Pages
      BY <2>6, <3>1, RangeTypes DEF TypeOK
    <3>3. p \notin PagesIn(image) => map'[p] = Free
      BY <2>1, <3>1, <3>2 DEF Restore, RestoredMap, Lower
    <3> QED
      BY <2>2, <3>1, <3>2, <3>3 DEF Mine, Clean
  <2> QED
    BY <2>5, <2>6 DEF EntriesOwned
<1>11. CASE \E b \in LowerBuilds : RestoreFails(b)
  BY <1>11, <1>0, KeptOwned DEF RestoreFails, table, counts, Mine, Clean
<1>12. CASE RecordMapping
  <2>1. pending \in Ranges /\ Record(pending) /\ pending' = NoEntry
    BY <1>12 DEF RecordMapping, TypeOK
  <2>2. \A i \in 0 .. MAX_TRACK - 1 : mmaps'[i] \in {mmaps[i], pending}
    BY <2>1, RecordType
  <2>3. PagesOf(NoEntry) = {}
    BY DEF PagesOf, NoEntry
  <2>4. \A p : Mine(p) => Mine(p)'
    BY <1>12 DEF RecordMapping, counts, Mine, Clean
  <2> QED
    BY <1>0, <2>1, <2>2, <2>3, <2>4 DEF EntriesOwned
<1>13. CASE UNCHANGED vars
  BY <1>13, <1>0, KeptOwned DEF vars, process, table, counts, Mine, Clean
<1> QED
  BY <1>1, <1>2, <1>3, <1>4, <1>5, <1>6, <1>7, <1>8, <1>9, <1>10, <1>11, <1>12, <1>13
  DEF Next

\* What is written is in a mapped area and in an entry: it is the upper half's.
LEMMA OwnedIsSaved == OwnedInv => NoLowerSaved
<1> SUFFICES ASSUME OwnedInv, Apart, NEW p \in Kept
             PROVE  map[p].by = "upper"
  BY DEF NoLowerSaved
<1> USE DEF OwnedInv, TypeInv
<1>1. PICK s \in Written : p \in PagesOf(s.range)
  BY DEF Kept, PagesIn
<1>2. PICK a \in Areas, i \in 0 .. MAX_TRACK - 1 :
        p \in PagesOf(a) /\ p \in PagesOf(mmaps[i])
  BY <1>1, WrittenFrom
<1>3. map[p] # Free
  BY <1>2, AreaMapped
<1> QED
  BY <1>2, <1>3 DEF EntriesOwned, Mine

\* A checkpoint never saves a page of the lower half, also one taken in the
\* middle of mmap: as long as munmap, or a mapping recorded late, and mappings
\* the lower half makes for itself have not met, whatever is mapped, protected,
\* grown and restored, and however the kernel merges it.
THEOREM SavesOnlyUpper == Spec => []NoLowerSaved
<1>1. Init => OwnedInv
  BY InitTypeInv, InitOwned DEF OwnedInv
<1>2. OwnedInv /\ [Next]_vars => OwnedInv'
  BY TypeStep, OwnedStep DEF OwnedInv
<1>3. OwnedInv => NoLowerSaved
  BY OwnedIsSaved
<1> QED
  BY <1>1, <1>2, <1>3, PTL DEF Spec
-----------------------------------------------------------------------------
(* What is saved comes in one piece, from one place.                       *)

\* Areas do not overlap: each is a maximal run.
LEMMA AreasApart ==
  ASSUME TypeOK, NEW a \in Areas, NEW b \in Areas,
         NEW p \in PagesOf(a), p \in PagesOf(b)
  PROVE  a = b
<1>1. /\ a \in Ranges /\ IsArea(a)
      /\ b \in Ranges /\ IsArea(b)
  BY DEF Areas
<1>2. p \in Nat /\ a.lo <= p /\ p < a.hi /\ b.lo <= p /\ p < b.hi
  BY <1>1, RangeTypes DEF PagesOf, Pages
<1>3. map[a.lo].attr = map[p].attr /\ map[b.lo].attr = map[p].attr
  BY <1>1 DEF IsArea
<1>4. ASSUME NEW c \in Areas, NEW d \in Areas, IsArea(c), IsArea(d),
             c \in Ranges, d \in Ranges, c.lo <= p, p < c.hi, d.lo <= p, p < d.hi,
             map[c.lo].attr = map[d.lo].attr
      PROVE  ~(c.lo < d.lo) /\ ~(c.hi < d.hi)
  <2>1. ASSUME c.lo < d.lo PROVE FALSE
    <3>1. d.lo - 1 \in PagesOf(c) /\ d.lo - 1 \in Pages
      BY <1>2, <1>4, <2>1, RangeTypes DEF PagesOf
    <3>2. map[d.lo - 1].attr = map[d.lo].attr
      BY <1>4, <3>1 DEF IsArea
    <3> QED
      BY <1>4, <3>1, <3>2 DEF IsArea
  <2>2. ASSUME c.hi < d.hi PROVE FALSE
    <3>1. c.hi \in PagesOf(d) /\ c.hi \in Pages
      BY <1>2, <1>4, <2>2, RangeTypes DEF PagesOf
    <3>2. map[c.hi].attr = map[c.lo].attr
      BY <1>4, <3>1 DEF IsArea
    <3> QED
      BY <1>4, <3>1, <3>2 DEF IsArea
  <2> QED
    BY <2>1, <2>2
<1>5. ~(a.lo < b.lo) /\ ~(a.hi < b.hi) /\ ~(b.lo < a.lo) /\ ~(b.hi < a.hi)
  BY <1>1, <1>2, <1>3, <1>4
<1>6. a.lo = b.lo /\ a.hi = b.hi
  BY <1>1, <1>5, RangeTypes
<1> QED
  BY <1>1, <1>6, RangeTypes

\* Saved regions do not overlap: each is a part of an area of its own.
LEMMA WrittenApart ==
  ASSUME TypeOK, NEW s \in Written, NEW t \in Written, s # t
  PROVE  PagesOf(s.range) \cap PagesOf(t.range) = {}
<1> DEFINE part(a) == Part(a, mmaps[First(Matching(a))])
<1>1. ASSUME NEW u \in Written
      PROVE  \E a \in Areas : /\ u = [range |-> part(a), attr |-> Attr(a)]
                             /\ PagesOf(u.range) \subseteq PagesOf(a)
  <2>1. PICK a \in Areas : u \in {[range |-> r, attr |-> Attr(a)] : r \in ToWrite(a)}
    BY DEF Written
  <2>2. Matching(a) # {} /\ u = [range |-> part(a), attr |-> Attr(a)]
    BY <2>1 DEF ToWrite
  <2>3. PagesOf(part(a)) \subseteq PagesOf(a)
    BY <2>2, MatchingPart
  <2> QED
    BY <2>2, <2>3
<1> HIDE DEF part
<1>2. PICK a \in Areas : /\ s = [range |-> part(a), attr |-> Attr(a)]
                        /\ PagesOf(s.range) \subseteq PagesOf(a)
  BY <1>1
<1>3. PICK b \in Areas : /\ t = [range |-> part(b), attr |-> Attr(b)]
                        /\ PagesOf(t.range) \subseteq PagesOf(b)
  BY <1>1
<1> QED
  BY <1>2, <1>3, AreasApart

\* The saved regions of an image, and the entries of the listed table.
ImageApart ==
  \A s, t \in image : s # t => PagesOf(s.range) \cap PagesOf(t.range) = {}

\* An entry that covers an earlier one has an entry around it that is earlier
\* still: segments are laid over a mapping that is listed.
Nested ==
  \A i, j \in Listed :
    j < i /\ Within(mmaps[j], mmaps[i]) /\ mmaps[j] # mmaps[i] =>
      \E k \in Listed : k < j /\ Within(mmaps[i], mmaps[k])

\* What is to be recorded contains no entry, unless an earlier one is around it.
Fits(r) ==
  \A j \in Listed : Within(mmaps[j], r) /\ mmaps[j] # r =>
    \E k \in Listed : k < j /\ Within(r, mmaps[k])
PendingFits == pending # NoEntry => Fits(pending)

\* The break is never past the end of the heap: it grows by one page.
BreakInHeap == brk # 0 => brk <= endOfHeap

NestedInv == /\ OwnedInv /\ ImageApart /\ BreakInHeap
             /\ (Clean => Nested /\ PendingFits)

LEMMA TableKept ==
  ASSUME Nested, PendingFits, UNCHANGED <<mmaps, numRegions>>,
         pending' \in {pending, NoEntry}
  PROVE  Nested' /\ PendingFits'
BY DEF Nested, PendingFits, Fits, Listed, Within, regionContains

LEMMA MapsNested ==
  ASSUME Nested, NEW r \in Ranges, NEW attr, Maps(r, attr), Fits(r)
  PROVE  Nested' /\ PendingFits'
BY DEF Maps, table, Nested, PendingFits, Fits, Listed, Within, regionContains

\* A new entry that no earlier entry lies in, unless it lies in an earlier one.
LEMMA RecordNested ==
  ASSUME TypeOK, Nested, NEW r \in Ranges, Record(r), Fits(r)
  PROVE  Nested'
<1>1. numRegions' = 0 \/ numRegions' = numRegions + 1
  BY NextIndexIs DEF Record, TypeOK
<1>2. CASE numRegions' = 0
  BY <1>2 DEF Nested, Listed
<1>3. CASE numRegions' = numRegions + 1
  <2>1. Listed' = Listed \cup {numRegions} /\ \A j \in Listed : j < numRegions
    BY <1>3 DEF Listed, TypeOK
  <2>2. mmaps'[numRegions] = r /\ \A j \in Listed : mmaps'[j] = mmaps[j]
    BY <2>1 DEF Record, RecordAt, TypeOK, Listed
  <2>3. SUFFICES ASSUME NEW i \in Listed', NEW j \in Listed', j < i,
                        Within(mmaps'[j], mmaps'[i]), mmaps'[j] # mmaps'[i]
                 PROVE  \E k \in Listed' : k < j /\ Within(mmaps'[i], mmaps'[k])
    BY DEF Nested, Within, regionContains
  <2>4. j \in Listed
    BY <2>1, <2>3 DEF Listed, TypeOK
  <2>5. CASE i = numRegions
    BY <2>1, <2>2, <2>3, <2>4, <2>5 DEF Fits
  <2>6. CASE i \in Listed
    BY <2>1, <2>2, <2>3, <2>4, <2>6 DEF Nested
  <2> QED
    BY <2>1, <2>5, <2>6
<1> QED
  BY <1>1, <1>2, <1>3

\* Two ranges without a common page do not lie in each other.
LEMMA ApartNotWithin ==
  ASSUME NEW r \in Ranges, NEW t \in Ranges, PagesOf(r) \cap PagesOf(t) = {}
  PROVE  ~Within(r, t)
BY RangeTypes DEF Within, regionContains, PagesOf

LEMMA InitNested == Init => Nested /\ PendingFits /\ ImageApart /\ BreakInHeap
<1> SUFFICES ASSUME Init PROVE Nested /\ PendingFits /\ ImageApart /\ BreakInHeap
  OBVIOUS
<1>1. ImageApart
  BY DEF Init, ImageApart
<1>2. BreakInHeap
  BY MemoryAssumption, RangeTypes DEF Init, BreakInHeap
<1>3. NextIndex(0) = 0 \/ NextIndex(0) = 1
  BY NextIndexIs, MemoryAssumption
<1>4. NextIndex(0) \in 0 .. MAX_TRACK - 1 /\ NextIndex(0) = 1
  BY MemoryAssumption DEF NextIndex
<1>5. Listed \subseteq {0, 1}
  <2>1. NextIndex(1) = 0 \/ NextIndex(1) = 2
    BY <1>4, NextIndexIs
  <2> QED
    BY <1>4, <2>1 DEF Init, Listed
<1>6. mmaps[0] = StackAt /\ mmaps[1] = HeapAt
  BY <1>4, MemoryAssumption DEF Init, RecordAt, EmptyTable
<1>7. ~Within(StackAt, HeapAt)
  BY ApartNotWithin, MemoryAssumption
<1>8. Nested
  BY <1>5, <1>6, <1>7 DEF Nested
<1>9. PendingFits
  BY DEF Init, PendingFits
<1> QED
  BY <1>1, <1>2, <1>8, <1>9

\* No entry lies in pages that were free, as long as nothing was unmapped.
LEMMA FreshNested ==
  ASSUME OwnedInv, Clean, NEW r \in Ranges,
         \A p \in PagesOf(r) : map[p] = Free
  PROVE  Fits(r)
<1> SUFFICES ASSUME NEW j \in Listed, Within(mmaps[j], r) PROVE FALSE
  BY DEF Fits
<1>1. j \in 0 .. MAX_TRACK - 1
  BY MemoryAssumption DEF Listed, OwnedInv, TypeInv, TypeOK
<1>2. mmaps[j] \in Ranges
  BY <1>1, NoEntryMatches DEF OwnedInv, TypeInv, TypeOK
<1>3. mmaps[j].lo \in PagesOf(mmaps[j]) /\ mmaps[j].lo \in PagesOf(r)
  BY <1>2, RangeTypes DEF Within, regionContains, PagesOf
<1>4. map[mmaps[j].lo].by = "upper"
  BY <1>1, <1>3 DEF OwnedInv, TypeInv, Apart, EntriesOwned, Mine
<1> QED
  BY <1>3, <1>4 DEF Free

\* The entries of a restored process are regions of its image.
LEMMA RestoredNested ==
  ASSUME TypeOK, ImageApart, mmaps' = RestoredTable,
         numRegions' = Cardinality(image) % MAX_TRACK
  PROVE  Nested'
<1>1. Listed' \subseteq 0 .. MAX_TRACK - 1
  <2>1. Cardinality(image) % MAX_TRACK \in 0 .. MAX_TRACK - 1
    BY SavedFinite, IndexInTable, TypeIs DEF Typed
  <2> QED
    BY <2>1, MemoryAssumption DEF Listed
<1>2. ASSUME NEW i \in 0 .. MAX_TRACK - 1, NEW j \in 0 .. MAX_TRACK - 1,
             Within(RestoredTable[j], RestoredTable[i])
      PROVE  RestoredTable[j] = RestoredTable[i]
  <2>1. CASE RestoredTable[i] = NoEntry
    BY <1>2, <2>1, RestoredEntries, NoEntryMatches
  <2>2. CASE RestoredTable[j] = NoEntry
    BY <1>2, <2>2, RestoredEntries, NoEntryMatches
  <2>3. CASE RestoredTable[i] # NoEntry /\ RestoredTable[j] # NoEntry
    <3>1. PICK s \in image : RestoredTable[i] = s.range
      BY <2>3, RestoredEntries
    <3>2. PICK t \in image : RestoredTable[j] = t.range
      BY <2>3, RestoredEntries
    <3>3. s.range \in Ranges /\ t.range \in Ranges
      BY DEF TypeOK
    <3>4. s = t \/ PagesOf(t.range) \cap PagesOf(s.range) = {}
      BY DEF ImageApart
    <3> QED
      BY <1>2, <3>1, <3>2, <3>3, <3>4, ApartNotWithin
  <2> QED
    BY <2>1, <2>2, <2>3
<1> QED
  BY <1>1, <1>2 DEF Nested, Within, regionContains

\* A segment laid over a part of a listed entry has that entry around it; an
\* entry inside the segment is later, or has an earlier one around both.
LEMMA FixedNested ==
  ASSUME TypeOK, Nested, NEW r \in Ranges, NEW e \in Listed,
         Within(r, mmaps[e]), r # mmaps[e]
  PROVE  Fits(r)
<1> SUFFICES ASSUME NEW j \in Listed, Within(mmaps[j], r), mmaps[j] # r
             PROVE  \E k \in Listed : k < j /\ Within(r, mmaps[k])
  BY DEF Fits
<1>1. Listed \subseteq 0 .. MAX_TRACK - 1
  BY MemoryAssumption DEF Listed, TypeOK
<1>2. mmaps[e] \in Ranges /\ mmaps[j] \in Ranges
  BY <1>1, NoEntryMatches DEF TypeOK
<1>3. Within(mmaps[j], mmaps[e]) /\ mmaps[j] # mmaps[e]
  BY <1>2, RangeTypes DEF Within, regionContains
<1>4. e \in Nat /\ j \in Nat
  BY <1>1
<1>5. CASE e < j
  BY <1>5
<1>6. CASE j < e
  <2>1. PICK k \in Listed : k < j /\ Within(mmaps[e], mmaps[k])
    BY <1>3, <1>6 DEF Nested
  <2>2. mmaps[k] \in Ranges
    BY <1>1, <1>2, <2>1, NoEntryMatches DEF TypeOK
  <2>3. Within(r, mmaps[k])
    BY <1>2, <2>1, <2>2, RangeTypes DEF Within, regionContains
  <2> QED
    BY <2>1, <2>3
<1> QED
  BY <1>3, <1>4, <1>5, <1>6

\* A range of one page has no smaller one in it.
LEMMA PageNested ==
  ASSUME TypeOK, NEW r \in Ranges, r.hi = r.lo + 1, NEW j \in 0 .. MAX_TRACK - 1,
         Within(mmaps[j], r)
  PROVE  mmaps[j] = r
<1>1. mmaps[j] \in Ranges
  BY NoEntryMatches DEF TypeOK
<1> QED
  BY <1>1, RangeTypes DEF Within, regionContains

LEMMA NestedStep ==
  ASSUME NestedInv, [Next]_vars
  PROVE  ImageApart' /\ BreakInHeap' /\ (Clean' => Nested' /\ PendingFits')
<1> USE DEF NestedInv
<1>0. TypeOK /\ TypeInv /\ HeapKnown /\ ImageApart /\ BreakInHeap
  BY DEF OwnedInv, TypeInv
<1>d. Clean' => Clean
  BY <1>0, ApartBefore
<1>a. ASSUME UNCHANGED image PROVE ImageApart'
  BY <1>0, <1>a DEF ImageApart
<1>b. ASSUME UNCHANGED heap PROVE BreakInHeap'
  BY <1>0, <1>b DEF BreakInHeap, heap
<1>c. ASSUME UNCHANGED table, pending' \in {pending, NoEntry}
      PROVE  Clean' => Nested' /\ PendingFits'
  BY <1>c, <1>d, TableKept DEF table
<1>1. ASSUME NEW r \in Ranges, NEW attr \in MmapAttrs, UhMmap(r, attr)
      PROVE  ImageApart' /\ BreakInHeap' /\ (Clean' => Nested' /\ PendingFits')
  <2>1. UNCHANGED image /\ UNCHANGED heap /\ Maps(r, attr)
        /\ \A p \in PagesOf(r) : map[p] = Free
    BY <1>1 DEF UhMmap, Change, saved
  <2>2. ASSUME Clean' PROVE Nested' /\ PendingFits'
    BY <1>0, <1>d, <2>1, <2>2, FreshNested, MapsNested
  <2> QED
    BY <1>a, <1>b, <2>1, <2>2
<1>2. ASSUME NEW r \in Ranges, NEW attr \in MmapAttrs, UhMmapFixed(r, attr)
      PROVE  ImageApart' /\ BreakInHeap' /\ (Clean' => Nested' /\ PendingFits')
  <2>1. UNCHANGED image /\ UNCHANGED heap /\ Maps(r, attr)
        /\ \E e \in Listed : Within(r, mmaps[e]) /\ r # mmaps[e]
    BY <1>2 DEF UhMmapFixed, Change, saved
  <2>2. ASSUME Clean' PROVE Nested' /\ PendingFits'
    BY <1>0, <1>d, <2>1, <2>2, FixedNested, MapsNested
  <2> QED
    BY <1>a, <1>b, <2>1, <2>2
<1>3. CASE \E r \in Ranges, attr \in {"rw", "ro", "none"} : Mprotect(r, attr)
  BY <1>3, <1>a, <1>b, <1>c DEF Mprotect, Change, saved
<1>4. CASE \E r \in Ranges : Munmap(r)
  <2>1. UNCHANGED image /\ UNCHANGED heap /\ unmaps' = unmaps + 1
    BY <1>4 DEF Munmap, Change, saved
  <2>2. ~Clean'
    BY <1>0, <2>1, MemoryAssumption DEF TypeOK, Clean
  <2> QED
    BY <1>a, <1>b, <2>1, <2>2
<1>5. CASE SbrkInside
  <2>1. UNCHANGED image /\ UNCHANGED table /\ UNCHANGED pending /\ brk' = endOfHeap'
    BY <1>5 DEF SbrkInside, Change, saved
  <2>2. BreakInHeap'
    <3>1. endOfHeap' \in Nat
      BY <1>0, <1>5, MemoryAssumption DEF SbrkInside, TypeOK
    <3> QED
      BY <2>1, <3>1 DEF BreakInHeap
  <2> QED
    BY <1>a, <1>c, <2>1, <2>2
<1>6. CASE SbrkMaps
  <2> DEFINE r == [lo |-> endOfHeap, hi |-> brk + 1]
  <2>1. /\ UNCHANGED image /\ Maps(r, "rw")
        /\ brk # 0 /\ brk + 1 > endOfHeap /\ brk + 1 <= NumPages
        /\ brk' = brk + 1 /\ endOfHeap' = brk + 1
    BY <1>6 DEF SbrkMaps, Change, saved
  <2>2. brk \in Nat /\ endOfHeap \in Nat /\ endOfHeap # 0
    BY <1>0, <2>1, MemoryAssumption DEF TypeOK, HeapKnown
  <2>3. brk = endOfHeap
    BY <1>0, <2>1, <2>2 DEF BreakInHeap
  <2>4. r \in Ranges
    BY <1>0, <2>1, <2>2, GrownRange
  <2>5. r.hi = r.lo + 1
    BY <2>3
  <2>6. BreakInHeap'
    BY <2>1, <2>2 DEF BreakInHeap
  <2>7. Listed \subseteq 0 .. MAX_TRACK - 1
    BY <1>0, MemoryAssumption DEF Listed, TypeOK
  <2> HIDE DEF r
  <2>8. \A j \in Listed : Within(mmaps[j], r) => mmaps[j] = r
    BY <1>0, <2>4, <2>5, <2>7, PageNested
  <2>9. ASSUME Clean' PROVE Nested' /\ PendingFits'
    <3>1. Nested /\ Fits(r)
      BY <1>d, <2>8, <2>9 DEF Fits
    <3> QED
      BY <2>1, <2>4, <3>1, MapsNested DEF r
  <2> QED
    BY <1>a, <2>1, <2>6, <2>9
<1>7. CASE StackGrows
  BY <1>7, <1>a, <1>b, <1>c DEF StackGrows, Change, saved
<1>8. CASE \E p \in Pages : LhMmap(p)
  BY <1>8, <1>a, <1>b, <1>c DEF LhMmap, saved
<1>9. CASE Checkpoint
  <2>1. image' = Written /\ UNCHANGED heap /\ UNCHANGED table /\ UNCHANGED pending
    BY <1>9 DEF Checkpoint
  <2>2. ImageApart'
    BY <1>0, <2>1, WrittenApart DEF ImageApart
  <2> QED
    BY <1>b, <1>c, <2>1, <2>2
<1>10. CASE Die
  BY <1>10, <1>a, <1>b, <1>c DEF Die, saved
<1>11. ASSUME NEW b \in LowerBuilds, Restore(b)
       PROVE  ImageApart' /\ BreakInHeap' /\ (Clean' => Nested' /\ PendingFits')
  <2>1. /\ mmaps' = RestoredTable /\ numRegions' = Cardinality(image) % MAX_TRACK
        /\ brk' = 0 /\ UNCHANGED image
        /\ (pending' = NoEntry \/ late')
    BY <1>11 DEF Restore, saved
  <2>2. Nested'
    BY <1>0, <2>1, RestoredNested
  <2>3. BreakInHeap'
    BY <2>1 DEF BreakInHeap
  <2>4. Clean' => PendingFits'
    BY <2>1 DEF Clean, PendingFits
  <2> QED
    BY <1>a, <2>1, <2>2, <2>3, <2>4
<1>12. CASE \E b \in LowerBuilds : RestoreFails(b)
  BY <1>12, <1>a, <1>b, <1>c DEF RestoreFails, saved
<1>13. CASE RecordMapping
  <2>1. /\ pending \in Ranges /\ pending # NoEntry /\ Record(pending) /\ pending' = NoEntry
        /\ UNCHANGED heap /\ UNCHANGED image
    BY <1>0, <1>13 DEF RecordMapping, saved, TypeOK
  <2>2. ASSUME Clean' PROVE Nested' /\ PendingFits'
    <3>1. Nested /\ Fits(pending)
      BY <1>d, <2>1, <2>2 DEF PendingFits
    <3>2. PICK r \in Ranges : r = pending
      BY <2>1
    <3> QED
      BY <1>0, <2>1, <3>1, <3>2, RecordNested DEF PendingFits
  <2> QED
    BY <1>a, <1>b, <2>1, <2>2
<1>14. CASE UNCHANGED vars
  BY <1>14, <1>a, <1>b, <1>c DEF vars, saved
<1> QED
  BY <1>1, <1>2, <1>3, <1>4, <1>5, <1>6, <1>7, <1>8, <1>9, <1>10, <1>11, <1>12, <1>13, <1>14
  DEF Next

\* The first entry that matches an area lying in some entry has the area in it.
LEMMA NestedSaves == NestedInv => UnmergedIsSaved
<1> SUFFICES ASSUME NestedInv, Clean, NEW a \in Areas, Readable(a),
                    NEW i \in Listed, Within(a, mmaps[i])
             PROVE  PagesOf(a) \subseteq Kept
  BY DEF UnmergedIsSaved
<1> DEFINE f == First(Matching(a))
<1>0. TypeOK /\ Nested
  BY DEF NestedInv, OwnedInv, TypeInv
<1>1. i \in Matching(a)
  BY DEF Matching
<1>2. /\ f \in Matching(a) /\ \A j \in Matching(a) : f <= j
      /\ mmaps[f] \in Ranges
  BY <1>0, <1>1, MatchingPart
<1>3. Listed \subseteq 0 .. MAX_TRACK - 1 /\ f \in Listed
  <2>1. Listed \subseteq 0 .. MAX_TRACK - 1
    BY <1>0, MemoryAssumption DEF Listed, TypeOK
  <2>2. Matching(a) \subseteq Listed
    BY DEF Matching
  <2> QED
    BY <1>2, <2>1, <2>2
<1>4. a \in Ranges
  BY <1>0, AreaMapped
<1>5. mmaps[i] \in Ranges
  BY <1>0, <1>3, <1>4, NoEntryMatches DEF TypeOK
<1> HIDE DEF f
<1>6. Within(a, mmaps[f])
  <2> SUFFICES ASSUME ~Within(a, mmaps[f]) PROVE FALSE
    OBVIOUS
  <2>1. Within(mmaps[f], a) /\ f # i
    BY <1>2 DEF Matching
  <2>2. f < i
    BY <1>1, <1>2, <1>3, <2>1
  <2>3. Within(mmaps[f], mmaps[i]) /\ mmaps[f] # mmaps[i]
    BY <1>2, <1>4, <1>5, <2>1, RangeTypes DEF Within, regionContains
  <2>4. PICK k \in Listed : k < f /\ Within(mmaps[i], mmaps[k])
    BY <1>0, <1>3, <2>2, <2>3 DEF Nested
  <2>5. mmaps[k] \in Ranges
    BY <1>0, <1>3, <1>5, <2>4, NoEntryMatches DEF TypeOK
  <2>6. Within(a, mmaps[k])
    BY <1>4, <1>5, <2>4, <2>5, RangeTypes DEF Within, regionContains
  <2>7. k \in Matching(a)
    BY <2>6 DEF Matching
  <2> QED
    BY <1>2, <1>3, <2>4, <2>7
<1>7. ToWrite(a) = {a}
  BY <1>1, <1>6 DEF ToWrite, Part, f
<1>8. [range |-> a, attr |-> Attr(a)] \in Written
  BY <1>7 DEF Written
<1> QED
  BY <1>8 DEF Kept, PagesIn

LEMMA NestedAlways == Spec => []NestedInv
<1>1. Init => NestedInv
  BY InitTypeInv, InitOwned, InitNested DEF OwnedInv, NestedInv
<1>2. NestedInv /\ [Next]_vars => NestedInv'
  BY TypeStep, OwnedStep, NestedStep DEF OwnedInv, NestedInv
<1> QED
  BY <1>1, <1>2, PTL DEF Spec

\* An area that lies in one recorded mapping is saved whole, although segments
\* laid over the mapping have entries too, and whatever has wrapped around in
\* the table: as long as munmap is not used, and no mapping recorded late.
THEOREM SavesWholeAreas == Spec => []UnmergedIsSaved
BY NestedAlways, NestedSaves, PTL

-----------------------------------------------------------------------------
(* The image fits the lower half that wrote it.                            *)

\* The heap may grow over whatever follows it, sbrk maps with MAP_FIXED: the
\* lower half must not be so near that the changes of a run reach it.
HeapHasRoom ==
  \A b \in LowerBuilds : b \cap (HeapAt.lo .. HeapAt.lo + MaxChanges) = {}

\* The lower half's pages stay its own, and no entry or saved region is there.
LowerKept ==
  /\ \A p \in build : map[p].by = "lower"
  /\ \A i \in 0 .. MAX_TRACK - 1 : PagesOf(mmaps[i]) \cap build = {}
  /\ PagesOf(pending) \cap build = {}
  /\ \A s \in image : PagesOf(s.range) \cap build = {}

\* The heap is where it was reserved, and grows by a page at a time.
HeapNear ==
  brk # 0 => /\ HeapAt.lo < brk /\ HeapAt.lo < endOfHeap
             /\ brk <= HeapAt.lo + 1 + changes

FitsInv == NestedInv /\ LowerKept /\ HeapNear

\* A new mapping away from the lower half.
LEMMA MapsKept ==
  ASSUME TypeOK, LowerKept, NEW r \in Ranges, NEW attr \in Attrs,
         Maps(r, attr), PagesOf(r) \cap build = {},
         UNCHANGED <<build, image>>
  PROVE  LowerKept'
<1>1. build \subseteq Pages
  BY MemoryAssumption DEF TypeOK
<1>2. \A p \in build : map'[p] = map[p]
  BY <1>1, MappedPages, TypeIs DEF Typed, Maps
<1> QED
  BY <1>2 DEF LowerKept, Maps, table

\* A step that leaves the table and the image alone.
LEMMA PagesKept ==
  ASSUME LowerKept, UNCHANGED <<mmaps, build, image>>,
         pending' \in {pending, NoEntry},
         \A p \in build : map'[p] = map[p]
  PROVE  LowerKept'
<1>1. PagesOf(NoEntry) = {}
  BY DEF PagesOf, NoEntry
<1> QED
  BY <1>1 DEF LowerKept

\* A region that meets no page of a lower half does not overlap with one.
LEMMA NoConflictIs ==
  ASSUME TypeOK, ImageApart, NEW b \in LowerBuilds
  PROVE  ~Conflicts(b) <=> \A s \in image : PagesOf(s.range) \cap b = {}
<1>0. b \subseteq Nat
  BY MemoryAssumption DEF Pages
<1>1. \A s \in image : s.range \in Ranges
  BY DEF TypeOK
<1>2. ASSUME NEW s \in image, NEW p \in b
      PROVE  doAreasOverlap(p, 1, s.range.lo, Size(s.range)) <=> p \in PagesOf(s.range)
  <2>1. s.range.lo \in Nat /\ s.range.hi \in Nat /\ s.range.lo < s.range.hi /\ p \in Nat
    BY <1>0, <1>1, RangeTypes
  <2> QED
    BY <2>1 DEF doAreasOverlap, Size, PagesOf
<1>3. ASSUME NEW s \in image, NEW t \in image, s # t
      PROVE  ~doAreasOverlap(t.range.lo, Size(t.range), s.range.lo, Size(s.range))
  <2>1. PagesOf(s.range) \cap PagesOf(t.range) = {}
    BY <1>3 DEF ImageApart
  <2>2. /\ s.range.lo \in Nat /\ s.range.hi \in Nat /\ s.range.lo < s.range.hi
        /\ t.range.lo \in Nat /\ t.range.hi \in Nat /\ t.range.lo < t.range.hi
    BY <1>1, RangeTypes
  <2> QED
    BY <2>1, <2>2 DEF doAreasOverlap, Size, PagesOf
<1> QED
  BY <1>2, <1>3 DEF Conflicts

LEMMA InitFits == HeapHasRoom /\ Init => LowerKept /\ HeapNear
<1> SUFFICES ASSUME Init PROVE LowerKept /\ HeapNear
  OBVIOUS
<1>1. /\ build \in LowerBuilds /\ map = LaunchMap(build) /\ image = {}
      /\ pending = NoEntry
  BY DEF Init
<1>2. build \cap (PagesOf(StackAt) \cup PagesOf(HeapAt)) = {} /\ build \subseteq Pages
  BY <1>1, MemoryAssumption
<1>3. \A p \in build : map[p] = By("lower", "rw")
  <2>1. HeapAt.lo \in PagesOf(HeapAt)
    BY MemoryAssumption, RangeTypes
  <2> QED
    BY <1>1, <1>2, <2>1 DEF LaunchMap, Mapped, Lower
<1>4. PagesOf(NoEntry) = {}
  BY DEF PagesOf, NoEntry
<1>5. \A i \in 0 .. MAX_TRACK - 1 : mmaps[i] \in {StackAt, HeapAt, NoEntry}
  BY DEF Init, RecordAt, EmptyTable
<1>6. HeapNear
  BY MemoryAssumption, RangeTypes DEF Init, HeapNear
<1> QED
  BY <1>1, <1>2, <1>3, <1>4, <1>5, <1>6 DEF LowerKept, By

LEMMA FitsStep ==
  ASSUME HeapHasRoom, FitsInv, [Next]_vars
  PROVE  LowerKept' /\ HeapNear'
<1>0. /\ TypeOK /\ HeapKnown /\ ImageApart /\ BreakInHeap /\ LowerKept /\ HeapNear
      /\ build \in LowerBuilds /\ build \subseteq Pages
  BY MemoryAssumption DEF FitsInv, NestedInv, OwnedInv, TypeInv, TypeOK
<1>1. \A r \in Ranges : Owned(r) => PagesOf(r) \cap build = {}
  BY <1>0 DEF Owned, LowerKept
<1>2. ASSUME UNCHANGED heap, changes' \in {changes, changes + 1} PROVE HeapNear'
  <2>1. changes \in Nat /\ HeapAt.lo \in Nat /\ brk \in Nat
    BY <1>0, MemoryAssumption, RangeTypes DEF TypeOK
  <2> QED
    BY <1>0, <1>2, <2>1 DEF HeapNear, heap
<1>3. ASSUME NEW r \in Ranges, NEW attr \in MmapAttrs,
             UhMmap(r, attr) \/ UhMmapFixed(r, attr)
      PROVE  LowerKept' /\ HeapNear'
  <2>1. /\ Maps(r, attr) /\ UNCHANGED heap
        /\ changes' = changes + 1 /\ UNCHANGED <<build, image>>
    BY <1>3 DEF UhMmap, UhMmapFixed, Change, process, saved
  <2>2. CASE \A p \in PagesOf(r) : map[p] = Free
    BY <1>0, <1>2, <2>1, <2>2, MapsKept, AttrTypes DEF LowerKept, Free
  <2>3. CASE \E i \in Listed : Within(r, mmaps[i]) /\ Owned(mmaps[i])
    <3>1. PICK i \in Listed : Within(r, mmaps[i]) /\ Owned(mmaps[i])
      BY <2>3
    <3>2. i \in 0 .. MAX_TRACK - 1
      BY <1>0, MemoryAssumption DEF Listed, TypeOK
    <3>3. mmaps[i] \in Ranges
      BY <1>0, <3>1, <3>2, NoEntryMatches DEF TypeOK
    <3>4. PagesOf(r) \subseteq PagesOf(mmaps[i])
      BY <3>1, <3>3, RangeTypes DEF Within, regionContains, PagesOf
    <3>5. PagesOf(r) \cap build = {}
      BY <1>1, <3>1, <3>3, <3>4
    <3> QED
      BY <1>0, <1>2, <2>1, <3>5, MapsKept, AttrTypes
  <2> QED
    BY <1>3, <2>2, <2>3 DEF UhMmap, UhMmapFixed, OwnMapping
<1>4. ASSUME NEW r \in Ranges, NEW attr \in {"rw", "ro", "none"}, Mprotect(r, attr)
      PROVE  LowerKept' /\ HeapNear'
  <2>1. /\ map' = Mapped(map, r, attr) /\ Owned(r) /\ UNCHANGED heap
        /\ changes' = changes + 1 /\ UNCHANGED <<mmaps, pending, build, image>>
    BY <1>4 DEF Mprotect, OwnMapping, Change, process, saved, table
  <2>2. \A p \in build : map'[p] = map[p]
    BY <1>0, <1>1, <2>1, MappedPages, AttrTypes, TypeIs DEF Typed
  <2> QED
    BY <1>0, <1>2, <2>1, <2>2, PagesKept
<1>5. ASSUME NEW r \in Ranges, Munmap(r)
      PROVE  LowerKept' /\ HeapNear'
  <2>1. /\ map' = [p \in Pages |-> IF p \in PagesOf(r) THEN Free ELSE map[p]]
        /\ Owned(r) /\ UNCHANGED heap
        /\ changes' = changes + 1 /\ UNCHANGED <<mmaps, pending, build, image>>
    BY <1>5 DEF Munmap, OwnMapping, Change, process, saved, table
  <2>2. \A p \in build : map'[p] = map[p]
    BY <1>0, <1>1, <2>1
  <2> QED
    BY <1>0, <1>2, <2>1, <2>2, PagesKept
<1>6. CASE SbrkInside
  <2>1. /\ brk # 0 /\ brk + 1 <= endOfHeap /\ brk' = brk + 1 /\ endOfHeap' = brk + 1
        /\ changes' = changes + 1 /\ UNCHANGED <<map, mmaps, pending, build, image>>
    BY <1>6 DEF SbrkInside, Change, process, saved, table
  <2>2. /\ changes \in Nat /\ HeapAt.hi \in Nat /\ HeapAt.lo \in Nat
        /\ endOfHeap \in Nat /\ brk \in Nat
    BY <1>0, MemoryAssumption, RangeTypes DEF TypeOK
  <2>3. HeapNear'
    BY <1>0, <2>1, <2>2 DEF HeapNear
  <2> QED
    BY <1>0, <2>1, <2>3, PagesKept
<1>7. CASE SbrkMaps
  <2> DEFINE r == [lo |-> endOfHeap, hi |-> brk + 1]
  <2>1. /\ Maps(r, "rw")
        /\ brk # 0 /\ brk + 1 > endOfHeap /\ brk + 1 <= NumPages
        /\ brk' = brk + 1 /\ endOfHeap' = brk + 1
        /\ changes < MaxChanges /\ changes' = changes + 1 /\ UNCHANGED <<build, image>>
    BY <1>7 DEF SbrkMaps, Change, process, saved
  <2>2. /\ changes \in Nat /\ HeapAt.hi \in Nat /\ HeapAt.lo \in Nat
        /\ endOfHeap \in Nat /\ brk \in Nat /\ MaxChanges \in Nat
    BY <1>0, MemoryAssumption, RangeTypes DEF TypeOK
  <2>3. /\ HeapAt.lo < endOfHeap /\ HeapAt.lo < brk /\ brk <= HeapAt.lo + 1 + changes
        /\ brk <= endOfHeap
    BY <1>0, <2>1, <2>2 DEF HeapNear, BreakInHeap
  <2>4. HeapNear'
    BY <2>1, <2>2, <2>3 DEF HeapNear
  <2>5. r \in Ranges
    BY <1>0, <2>1, GrownRange DEF HeapKnown
  <2>6. PagesOf(r) \subseteq HeapAt.lo .. HeapAt.lo + MaxChanges
    BY <2>1, <2>2, <2>3 DEF PagesOf
  <2>7. PagesOf(r) \cap build = {}
    BY <1>0, <2>6 DEF HeapHasRoom
  <2> HIDE DEF r
  <2> QED
    BY <1>0, <2>1, <2>4, <2>5, <2>7, MapsKept, AttrTypes
<1>8. CASE StackGrows
  <2>1. PICK p \in Pages : map[p - 1] = Free /\ map' = [map EXCEPT ![p - 1] = By("upper", "stack")]
    BY <1>8 DEF StackGrows
  <2>2. UNCHANGED <<mmaps, pending, build, image>> /\ UNCHANGED heap /\ changes' = changes + 1
    BY <1>8 DEF StackGrows, Change, process, saved, table
  <2>3. \A q \in build : map'[q] = map[q]
    BY <1>0, <2>1, TypeIs DEF Typed, LowerKept, Free
  <2> QED
    BY <1>0, <1>2, <2>2, <2>3, PagesKept
<1>9. CASE \E p \in Pages : LhMmap(p)
  <2>1. PICK p \in Pages : LhMmap(p)
    BY <1>9
  <2>2. \A q \in build : map'[q] = map[q]
    BY <1>0, <2>1, TypeIs DEF Typed, LhMmap, LowerKept, Free
  <2> QED
    BY <1>0, <1>2, <2>1, <2>2, PagesKept DEF LhMmap, process, saved, table
<1>10. CASE Checkpoint
  <2>1. image' = Written /\ UNCHANGED <<map, table, pending, heap, process, counts>>
    BY <1>10 DEF Checkpoint
  <2>2. \A s \in Written : PagesOf(s.range) \cap build = {}
    BY <1>0, WrittenFrom DEF LowerKept
  <2>3. LowerKept'
    BY <1>0, <2>1, <2>2 DEF LowerKept, table, process
  <2> QED
    BY <1>2, <2>1, <2>3 DEF counts
<1>11. CASE Die
  BY <1>0, <1>2, <1>11, PagesKept DEF Die, saved, table, counts
<1>12. ASSUME NEW b \in LowerBuilds, Restore(b)
       PROVE  LowerKept' /\ HeapNear'
  <2>1. /\ ~Conflicts(b) /\ map' = RestoredMap(b) /\ mmaps' = RestoredTable
        /\ brk' = 0 /\ build' = b /\ image' = image
        /\ (pending' = NoEntry \/ PagesOf(pending') \cap b = {})
    BY <1>12 DEF Restore, Resumes, saved
  <2>2. \A s \in image : PagesOf(s.range) \cap b = {}
    BY <1>0, <2>1, NoConflictIs
  <2>3. b \subseteq Pages
    BY MemoryAssumption
  <2>4. \A p \in b : RestoredMap(b)[p] = By("lower", "rw")
    BY <2>2, <2>3 DEF RestoredMap, PagesIn, Lower
  <2>5. PagesOf(NoEntry) = {}
    BY DEF PagesOf, NoEntry
  <2>6. \A i \in 0 .. MAX_TRACK - 1 : PagesOf(RestoredTable[i]) \cap b = {}
    BY <1>0, <2>2, <2>5, RestoredEntries
  <2>7. HeapNear'
    BY <2>1 DEF HeapNear
  <2> QED
    BY <2>1, <2>2, <2>4, <2>5, <2>6, <2>7 DEF LowerKept, By
<1>13. CASE \E b \in LowerBuilds : RestoreFails(b)
  BY <1>0, <1>2, <1>13, PagesKept DEF RestoreFails, saved, table, counts
<1>14. CASE UNCHANGED vars
  BY <1>0, <1>2, <1>14, PagesKept DEF vars, process, saved, table, counts
<1>15. CASE RecordMapping
  <2>1. /\ pending \in Ranges /\ Record(pending) /\ pending' = NoEntry
        /\ UNCHANGED heap /\ UNCHANGED <<map, build, image, changes>>
    BY <1>0, <1>15 DEF RecordMapping, saved, process, counts, TypeOK
  <2>2. \A i \in 0 .. MAX_TRACK - 1 : mmaps'[i] \in {mmaps[i], pending}
    BY <1>0, <2>1, RecordType
  <2>3. PagesOf(NoEntry) = {}
    BY DEF PagesOf, NoEntry
  <2>4. LowerKept'
    BY <1>0, <2>1, <2>2, <2>3 DEF LowerKept
  <2> QED
    BY <1>2, <2>1, <2>4
<1> QED
  BY <1>3, <1>4, <1>5, <1>6, <1>7, <1>8, <1>9, <1>10, <1>11, <1>12, <1>13, <1>14, <1>15
  DEF Next

\* The image can be restored by the lower half that wrote it, started again:
\* as long as the heap does not grow into the lower half.
THEOREM ImageAlwaysFits == HeapHasRoom => (Spec => []ImageFits)
<1>1. HeapHasRoom /\ Init => FitsInv
  BY InitTypeInv, InitOwned, InitNested, InitFits DEF OwnedInv, NestedInv, FitsInv
<1>2. HeapHasRoom /\ FitsInv /\ [Next]_vars => FitsInv'
  BY TypeStep, OwnedStep, NestedStep, FitsStep DEF OwnedInv, NestedInv, FitsInv
<1>3. FitsInv => ImageFits
  BY NoConflictIs DEF FitsInv, NestedInv, OwnedInv, TypeInv, TypeOK, LowerKept, ImageFits
<1>4. HeapHasRoom => (Spec => []FitsInv)
  <2>1. SUFFICES ASSUME HeapHasRoom PROVE Spec => []FitsInv
    OBVIOUS
  <2>2. Init => FitsInv
    BY <1>1, <2>1
  <2>3. FitsInv /\ [Next]_vars => FitsInv'
    BY <1>2, <2>1
  <2> QED
    BY <2>2, <2>3, PTL DEF Spec
<1> QED
  BY <1>3, <1>4, PTL
=============================================================================
