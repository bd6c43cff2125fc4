-------------------------- MODULE UpperHalfMemory --------------------------
(***************************************************************************)
(* Which memory of a process a checkpoint saves, and what a restart makes  *)
(* of it.                                                                  *)
(*                                                                         *)
(* The lower half records every mapping it makes for the upper half in a   *)
(* table of MAX_TRACK entries (mmap-wrapper.c).  A checkpoint walks        *)
(* /proc/self/maps, where the kernel shows adjacent pages of equal         *)
(* attributes as one area, and saves an area according to the first entry  *)
(* of the table that contains it or is contained in it (mem-ckpt.c).  A    *)
(* restart maps what was saved as anonymous memory, again through the      *)
(* table (mem-restore.c).  A signal may take the checkpoint in the middle  *)
(* of mmap, when a mapping is there and not yet in the table; a process    *)
(* that comes back from such an image may record it late.                  *)
(*                                                                         *)
(* The unit is the page.  An area or an entry is a range [lo, hi) of page  *)
(* numbers.  What pages hold is left out: they are saved or lost.          *)
(***************************************************************************)
EXTENDS Integers, FiniteSets, PageArith

CONSTANTS
  NumPages,      \* size of the address space
  LowerBuilds,   \* per build of the lower half, the pages it occupies
  StackAt,       \* the range of the stack made for ld.so
  HeapAt,        \* the range of the heap reservation made for ld.so
  Files,         \* files the upper half may map, each at most once
  MmapAttrs,     \* what the upper half maps: "rw" memory, files
  MAX_TRACK,     \* size of the table
  MaxChanges,    \* bound on what the upper half does to its memory
  MaxUnmaps,     \* bound on munmap calls
  MaxLowerMaps,  \* bound on mappings the lower half makes for itself
  MaxRestarts    \* bound on restarts

\* Page 0 is never mapped (vm.mmap_min_addr): the empty entry is in no area.
Pages == 1 .. NumPages - 1
Ranges == {r \in [lo : Pages, hi : 1 .. NumPages] : r.lo < r.hi}
PagesOf(r) == r.lo .. r.hi - 1
NoEntry == [lo |-> 0, hi |-> 0]

\* What /proc/self/maps tells two mappings apart by: backing, protection and
\* the flag of a stack that may grow.
Attrs == {"rw", "ro", "none", "stack"} \cup Files
Free == [by |-> "nobody", attr |-> "free"]
By(who, attr) == [by |-> who, attr |-> attr]

ASSUME MemoryAssumption ==
  /\ NumPages \in Nat \ {0}
  /\ LowerBuilds \subseteq SUBSET Pages
  /\ StackAt \in Ranges /\ HeapAt \in Ranges
  /\ HeapAt.lo + 1 < HeapAt.hi
  /\ PagesOf(StackAt) \cap PagesOf(HeapAt) = {}
  /\ \A b \in LowerBuilds : b \cap (PagesOf(StackAt) \cup PagesOf(HeapAt)) = {}
  /\ MmapAttrs \subseteq {"rw"} \cup Files
  /\ IsFiniteSet(Files)
  /\ {"rw", "ro", "none", "stack", "free"} \cap Files = {}
  /\ MAX_TRACK \in Nat /\ MAX_TRACK >= 2
  /\ {MaxChanges, MaxUnmaps, MaxLowerMaps, MaxRestarts} \subseteq Nat

VARIABLES
  map,         \* what each page is, and (for the properties) whose
  mmaps,       \* the table
  numRegions,  \* where its next entry goes
  pending,     \* what mmap has mapped and not yet recorded, or NoEntry
  brk,         \* page of the break of the upper half's heap, or 0: not known
  endOfHeap,   \* where the next growth of the heap maps
  image,       \* the areas in the checkpoint image, or {}
  inMmap,      \* what was pending when it was written
  late,        \* has a process come back with something pending?
  build,       \* the lower half of the process
  status,      \* the process: "running", "dead", or "refused" a restart
  changes, unmaps, lowerMaps, restarts   \* bounded counts

counts == <<changes, unmaps, lowerMaps, restarts>>
table == <<mmaps, numRegions>>
heap == <<brk, endOfHeap>>
saved == <<image, inMmap>>
process == <<build, status>>
vars == <<map, table, pending, heap, saved, late, process, counts>>
-----------------------------------------------------------------------------
(* The table.                                                              *)

EmptyTable == [i \in 0 .. MAX_TRACK - 1 |-> NoEntry]

\* Mutant: the entry of the last mapping is overwritten by the next one.
MutantRecordAt(t, n, r) == [t EXCEPT ![0] = r]

RecordAt(t, n, r) == [t EXCEPT ![n] = r]

\* Where the entry after the next one goes.
NextIndex(n) == (n + 1) % MAX_TRACK

Record(r) ==
  /\ mmaps' = RecordAt(mmaps, numRegions, r)
  /\ numRegions' = NextIndex(numRegions)
-----------------------------------------------------------------------------
(* The checkpoint's choice.                                                *)

\* The areas of /proc/self/maps: maximal runs of pages of equal attributes.
IsArea(r) ==
  /\ \A p \in PagesOf(r) : map[p] # Free /\ map[p].attr = map[r.lo].attr
  /\ r.lo - 1 \in Pages => map[r.lo - 1].attr # map[r.lo].attr
  /\ r.hi \in Pages => map[r.hi].attr # map[r.lo].attr
Areas == {r \in Ranges : IsArea(r)}
Attr(r) == map[r.lo].attr
Within(r, s) == regionContains(s.lo, s.hi, r.lo, r.hi)

\* getMmappedList: the first numRegions entries.
Listed == 0 .. numRegions - 1
Matching(area) == {i \in Listed : Within(area, mmaps[i]) \/ Within(mmaps[i], area)}
First(is) == CHOOSE i \in is : \A j \in is : i <= j

\* Mutant: an area that contains an entry is written whole.
MutantPart(area, entry) == area

\* The smaller of the two: the area, or the entry if the area contains it.
Part(area, entry) == IF Within(area, entry) THEN area ELSE entry

\* Mutant: regions without read permission are not skipped.
MutantReadable(area) == TRUE

Readable(area) == Attr(area) # "none"

\* writeRelevantMemoryRegion: one match decides, the loop breaks.
ToWrite(area) ==
  IF Readable(area) /\ Matching(area) # {}
  THEN {Part(area, mmaps[First(Matching(area))])}
  ELSE {}

\* checkpointMemory: what it would write now, with the protection it notes.
Written ==
  UNION {{[range |-> r, attr |-> Attr(a)] : r \in ToWrite(a)} : a \in Areas}
PagesIn(w) == UNION {PagesOf(s.range) : s \in w}
-----------------------------------------------------------------------------
(* A first launch: the stack and the heap reservation are recorded, and    *)
(* the reservation's first page is a guard (kernel-loader.c).              *)

Lower(b) ==
  [p \in Pages |-> IF p \in b THEN By("lower", "rw") ELSE Free]
Mapped(m, r, attr) ==
  [p \in Pages |-> IF p \in PagesOf(r) THEN By("upper", attr) ELSE m[p]]
Owned(r) == \A p \in PagesOf(r) : map[p].by = "upper"
\* Neither the stack nor the heap: what the upper half mapped by itself.
OwnMapping(r) ==
  Owned(r) /\ PagesOf(r) \cap (PagesOf(StackAt) \cup PagesOf(HeapAt)) = {}

LaunchMap(b) ==
  [Mapped(Mapped(Lower(b), StackAt, "stack"), HeapAt, "rw")
     EXCEPT ![HeapAt.lo] = By("upper", "none")]

Init ==
  /\ build \in LowerBuilds /\ map = LaunchMap(build)
  /\ mmaps = RecordAt(RecordAt(EmptyTable, 0, StackAt), NextIndex(0), HeapAt)
  /\ numRegions = NextIndex(NextIndex(0))
  /\ brk = HeapAt.lo + 1 /\ endOfHeap = HeapAt.hi
  /\ image = {} /\ status = "running"
  /\ pending = NoEntry /\ inMmap = NoEntry /\ late = FALSE
  /\ changes = 0 /\ unmaps = 0 /\ lowerMaps = 0 /\ restarts = 0

\* A change of the address space by the running upper half, whose one thread
\* is not in the middle of another.
Change ==
  /\ status = "running" /\ changes < MaxChanges
  /\ pending = NoEntry
  /\ changes' = changes + 1
  /\ UNCHANGED <<saved, late, process, lowerMaps, restarts>>

\* Every mapping is made by the kernel first ...
Maps(r, attr) ==
  /\ map' = Mapped(map, r, attr)
  /\ pending' = r
  /\ UNCHANGED table

\* ... and put into the table then (__mmapWrapper).
RecordMapping ==
  /\ status = "running" /\ pending # NoEntry
  /\ Record(pending)
  /\ pending' = NoEntry
  /\ UNCHANGED <<map, heap, saved, late, process, counts>>

\* mmap: the kernel picks free pages.
UhMmap(r, attr) ==
  /\ Change
  /\ \A p \in PagesOf(r) : map[p] = Free
  /\ Maps(r, attr)
  /\ UNCHANGED <<heap, unmaps>>

\* mmap with MAP_FIXED inside a mapping of its own, as ld.so lays the
\* segments of a library over the range it took for the whole of it.
UhMmapFixed(r, attr) ==
  /\ Change
  /\ \E i \in Listed :
       Within(r, mmaps[i]) /\ r # mmaps[i] /\ OwnMapping(mmaps[i])
  /\ Maps(r, attr)
  /\ UNCHANGED <<heap, unmaps>>

\* mprotect goes straight to the kernel: guard pages, read-only data.
Mprotect(r, attr) ==
  /\ Change /\ OwnMapping(r)
  /\ \A p \in PagesOf(r) : map[p].attr \in {"rw", "ro", "none"} \ {attr}
  /\ map' = Mapped(map, r, attr)
  /\ UNCHANGED <<table, pending, heap, unmaps>>

\* So does munmap: the table keeps the entry.
Munmap(r) ==
  /\ Change /\ OwnMapping(r)
  /\ unmaps < MaxUnmaps /\ unmaps' = unmaps + 1
  /\ map' = [p \in Pages |-> IF p \in PagesOf(r) THEN Free ELSE map[p]]
  /\ UNCHANGED <<table, pending, heap>>

\* sbrk by a page: maps with MAP_FIXED when the break passes the end of the
\* heap, which afterwards follows the break (SbrkWrapper has the whole of it).
\* The statics change behind the table, but nothing looks at them in between.
SbrkInside ==
  /\ Change /\ brk # 0 /\ brk + 1 <= endOfHeap
  /\ brk' = brk + 1 /\ endOfHeap' = brk + 1
  /\ UNCHANGED <<map, table, pending, unmaps>>

SbrkMaps ==
  /\ Change /\ brk # 0 /\ brk + 1 > endOfHeap
  /\ brk + 1 <= NumPages
  /\ Maps([lo |-> endOfHeap, hi |-> brk + 1], "rw")
  /\ brk' = brk + 1 /\ endOfHeap' = brk + 1
  /\ UNCHANGED unmaps

\* A fault just below the stack: the kernel extends it while the two pages
\* below are free (it keeps a gap to the next mapping).
StackGrows ==
  /\ Change
  /\ \E p \in Pages :
       /\ map[p].attr = "stack" /\ p - 2 \in Pages
       /\ map[p - 1] = Free /\ map[p - 2] = Free
       /\ map' = [map EXCEPT ![p - 1] = By("upper", "stack")]
  /\ UNCHANGED <<table, pending, heap, unmaps>>

\* The lower half maps a page for itself, past the wrapper.
LhMmap(p) ==
  /\ status = "running" /\ pending = NoEntry /\ map[p] = Free
  /\ lowerMaps < MaxLowerMaps /\ lowerMaps' = lowerMaps + 1
  /\ map' = [map EXCEPT ![p] = By("lower", "rw")]
  /\ UNCHANGED <<table, pending, heap, saved, late, process,
                 changes, unmaps, restarts>>
-----------------------------------------------------------------------------
(* Checkpoint and restart.                                                 *)

\* checkpointMemory, also by a signal in the middle of mmap.
Checkpoint ==
  /\ status = "running" /\ image' = Written /\ inMmap' = pending
  /\ UNCHANGED <<map, table, pending, heap, late, process, counts>>

Die ==
  /\ status = "running" /\ image # {}
  /\ restarts < MaxRestarts /\ restarts' = restarts + 1
  /\ status' = "dead" /\ pending' = NoEntry
  /\ UNCHANGED <<map, table, heap, saved, late, build,
                 changes, unmaps, lowerMaps>>

\* anyOverlappingRegion: a saved region meets what this lower half has
\* mapped, or a region restored before it.
Size(r) == r.hi - r.lo
Conflicts(b) ==
  \E s \in image :
    \/ \E p \in b : doAreasOverlap(p, 1, s.range.lo, Size(s.range))
    \/ \E t \in image \ {s} :
         doAreasOverlap(t.range.lo, Size(t.range), s.range.lo, Size(s.range))

\* Regions come back as anonymous memory with the protection they had, and
\* without the flag of a stack.
RestoredAttr(attr) ==
  CASE attr \in Files -> "ro" [] attr = "stack" -> "rw" [] OTHER -> attr

RestoredMap(b) ==
  [p \in Pages |->
     IF p \in PagesIn(image)
     THEN By("upper",
             RestoredAttr((CHOOSE s \in image : p \in PagesOf(s.range)).attr))
     ELSE Lower(b)[p]]

\* Regions are restored, hence recorded, in the order of their addresses; an
\* entry of the table is the last one that its place in the table has had.
Place(s) == Cardinality({t \in image : t.range.lo < s.range.lo})
LastPlaceAt(i) ==
  i + MAX_TRACK * ((Cardinality(image) - 1 - i) \div MAX_TRACK)
RestoredTable ==
  [i \in 0 .. MAX_TRACK - 1 |->
     IF \E s \in image : Place(s) = LastPlaceAt(i)
     THEN (CHOOSE s \in image : Place(s) = LastPlaceAt(i)).range
     ELSE NoEntry]

\* Who comes back in the middle of mmap is in code of the lower half.  Under
\* the build that was there it goes on, and records in the new table what may
\* not have been saved (the pages were not that build's own); under another
\* build the process ends soon, and what it would do is left out.
Resumes(b, r) ==
  \/ r = NoEntry
  \/ r = inMmap /\ PagesOf(r) \cap b = {}

\* restoreMemory in a new process: its heap statics are zero.
Restore(b) ==
  /\ status # "running" /\ ~Conflicts(b)
  /\ \E r \in {NoEntry, inMmap} :
       /\ Resumes(b, r)
       /\ pending' = r
       /\ late' = (late \/ r # NoEntry)
  /\ map' = RestoredMap(b)
  /\ mmaps' = RestoredTable /\ numRegions' = Cardinality(image) % MAX_TRACK
  /\ brk' = 0 /\ endOfHeap' = 0
  /\ build' = b /\ status' = "running"
  /\ UNCHANGED <<saved, counts>>

\* restoreMemoryRegion finds an overlap: the restart gives up.
RestoreFails(b) ==
  /\ status # "running" /\ Conflicts(b)
  /\ status' = "refused"
  /\ UNCHANGED <<map, table, pending, heap, saved, late, build, counts>>

Unmapped(attr) == attr = "rw" \/ \A p \in Pages : map[p].attr # attr

Next ==
  \/ \E r \in Ranges, attr \in MmapAttrs :
       Unmapped(attr) /\ (UhMmap(r, attr) \/ UhMmapFixed(r, attr))
  \/ \E r \in Ranges, attr \in {"rw", "ro", "none"} : Mprotect(r, attr)
  \/ \E r \in Ranges : Munmap(r)
  \/ SbrkInside \/ SbrkMaps \/ StackGrows
  \/ RecordMapping
  \/ \E p \in Pages : LhMmap(p)
  \/ Checkpoint \/ Die
  \/ \E b \in LowerBuilds : Restore(b) \/ RestoreFails(b)

Spec == Init /\ [][Next]_vars
-----------------------------------------------------------------------------
(* Properties.                                                             *)

TypeOK ==
  /\ map \in [Pages -> {Free} \cup {By(w, a) : w \in {"upper", "lower"}, a \in Attrs}]
  /\ mmaps \in [0 .. MAX_TRACK - 1 -> Ranges \cup {NoEntry}]
  /\ numRegions \in 0 .. MAX_TRACK - 1
  /\ pending \in Ranges \cup {NoEntry} /\ inMmap \in Ranges \cup {NoEntry}
  /\ brk \in 0 .. NumPages /\ endOfHeap \in 0 .. NumPages
  /\ image \subseteq [range : Ranges, attr : Attrs \ {"none"}]
  /\ late \in BOOLEAN
  /\ build \in LowerBuilds /\ status \in {"running", "dead", "refused"}
  /\ changes \in 0 .. MaxChanges /\ unmaps \in 0 .. MaxUnmaps
  /\ lowerMaps \in 0 .. MaxLowerMaps /\ restarts \in 0 .. MaxRestarts

Running == status = "running"
Tracked(p) == \E i \in Listed : p \in PagesOf(mmaps[i])
Kept == PagesIn(Written)
UpperReadable(p) ==
  Running /\ map[p].by = "upper" /\ map[p].attr # "none"

\* No entry speaks of pages that are not mapped: nothing was unmapped, and
\* nothing recorded by a process that came back inside mmap.
Clean == unmaps = 0 /\ ~late

\* Where such entries and mappings of the lower half's own have not met: the
\* one could stand for the other.
Apart == Clean \/ lowerMaps = 0

\* A checkpoint never saves a page of the lower half, even when the kernel
\* shows it as one area with a mapping of the upper half, and when a mapping
\* is not recorded yet.
NoLowerSaved ==
  Apart /\ Running => \A p \in Kept : map[p].by = "upper"

\* An area that lies inside one recorded mapping is saved whole: entries for
\* parts of the mapping come later in the table, or have an entry around them
\* that comes before.
UnmergedIsSaved ==
  Clean /\ Running => \A a \in Areas :
    (Readable(a) /\ \E i \in Listed : Within(a, mmaps[i])) => PagesOf(a) \subseteq Kept

\* The lower half that wrote the image, started again, can restore it: no
\* saved region meets its pages or another region.  (A lower half that was
\* given the image and could not restore it is not counted.)
ImageFits == ~Conflicts(build)

\* What the upper half may read of a mapping it made is saved
\* (mem-ckpt.c:140, "Don't skip the regions mmaped by the upper half").
TrackedIsSaved ==
  \A p \in Pages : UpperReadable(p) /\ Tracked(p) => p \in Kept
=============================================================================
