------------------------------ MODULE LibcLoad ------------------------------
(***************************************************************************)
(* What becomes of the libc of the upper half.  The ld.so that             *)
(* KernelLoader starts maps it with mmap, and its mmap is by now a jump to *)
(* the wrapper of the lower half (mmap-wrapper.c).  The wrapper looks at   *)
(* every file that is mapped to be executed, and in a libc it makes mmap   *)
(* and sbrk jumps to the lower half too (patchLibc), so that it goes on    *)
(* seeing what the upper half maps.                                        *)
(*                                                                         *)
(* The bytes of the library are told apart by their offset in the file, as *)
(* those of ld.so, and from those.  Its bss is left out, and so is what    *)
(* ld.so does when its own code is written over.                           *)
(***************************************************************************)
EXTENDS KernelLoader

CONSTANT Libraries  \* that ld.so may map, as Elfs, with their names

Span(l) == ROUND_UP(l.segments[Len(l.segments)].vaddr + l.segments[Len(l.segments)].memsz)
IsCode(prot) == "X" \in prot

\* As ld.so, and without a bss.
ASSUME LibrariesAssumption ==
  \A l \in Libraries :
    IsLdSo(l) /\ \A i \in DOMAIN l.segments : l.segments[i].memsz = l.segments[i].filesz

VARIABLES
  step,      \* "map" (ld.so's turn), patchLibc's "look", "mmap" and "sbrk", or "died"
  libc, libcDebug, \* the library it maps, and its debug file
  lo,        \* where ld.so has put the library, or NULL
  mapped,    \* how many of its segments are mapped
  outcome    \* per function, "untouched", "loosened" (a page was left writable),
             \* "open" (the jump was written, pages were left writable) or "patched"

upper == <<step, libc, libcDebug, lo, mapped, outcome>>

LibcInit ==
  /\ Init
  /\ step = "map" /\ lo = NULL /\ mapped = 0
  /\ libc = NoFile /\ libcDebug = NoFile
  /\ outcome = [f \in Functions |-> "untouched"]

\* ld.so runs, when all of it is there.
Running == at = "jumped" /\ lost = {}

Byte(offset) == 1000 + offset
PagesFrom(addr, n) == addr .. ROUND_UP(addr + n) - 1
FileAt(m, addr, n, offset, prot) ==
  [a \in Addrs |-> IF a \in PagesFrom(addr, n)
                   THEN [data |-> Byte(offset + (a - addr)), prot |-> prot] ELSE m[a]]

\* What the wrapper does of a mapping, after it has recorded it.
Seen(l, prot) == step' = IF l.name = "libc-" /\ IsCode(prot) THEN "look" ELSE "map"

\* First ld.so maps as much of the file as the library will take, with the
\* permissions of its first segment.
MapLibrary ==
  /\ Running /\ step = "map" /\ mapped = 0
  /\ \E l \in Libraries, d \in Libraries \cup {NoFile}, a \in Addrs :
       /\ d # NoFile => d.symbols = l.symbols
       /\ Room(a, Span(l))
       /\ mem' = FileAt(mem, a, Span(l), ROUND_DOWN(l.segments[1].offset), l.segments[1].prot)
       /\ libc' = l /\ libcDebug' = d /\ lo' = a
       /\ Seen(l, l.segments[1].prot)
  /\ mapped' = 1
  /\ UNCHANGED <<at, chosen, loading, info, newStack, heap, outcome>>

\* Then it maps the other segments over that.
MapSegment ==
  /\ Running /\ step = "map" /\ mapped > 0 /\ mapped < Len(libc.segments)
  /\ LET s == libc.segments[mapped + 1]
         n == PAGE_OFFSET(s.vaddr) + s.filesz
     IN  /\ mem' = FileAt(mem, lo + ROUND_DOWN(s.vaddr), n, ROUND_DOWN(s.offset), s.prot)
         /\ Seen(libc, s.prot)
  /\ mapped' = mapped + 1
  /\ UNCHANGED <<at, chosen, loading, info, newStack, heap, libc, libcDebug, lo, outcome>>

LookUpLibc ==
  /\ step = "look"
  /\ \E m \in get_symbol_offset(libc, libcDebug, "mmap"),
        b \in get_symbol_offset(libc, libcDebug, "sbrk") :
       step' = IF Crash \in {m, b} THEN "died" ELSE IF Missing(m, b) THEN "map" ELSE "mmap"
  /\ UNCHANGED <<vars, libc, libcDebug, lo, mapped, outcome>>

\* Mutant: the two offsets are mixed up.
MutantTarget(f) ==
  lo + ROUND_DOWN(libc.segments[mapped].vaddr) + libc.symbols[IF f = "mmap" THEN "sbrk" ELSE "mmap"]

\* Where the trampoline of f is written: at the distance of the function from
\* the mapping that the wrapper has just made.
Target(f) == lo + ROUND_DOWN(libc.segments[mapped].vaddr) + libc.symbols[f]

\* The pages of S are all mapped.
There(S) == \A a \in S : a \in Addrs /\ mem[a] # Unmapped

\* An mprotect of the pages that fails may have changed those before the one it
\* cannot change.
Begun(addr) ==
  LET first == ROUND_DOWN(addr) .. ROUND_DOWN(addr) + PAGE_SIZE - 1
  IN  {S \in {{}, first} : S # Patched(addr) /\ There(S)}

\* insertTrampoline: both calls of mprotect, either of which may fail, and the
\* copying between them.  What it returns is not looked at, nor whether the pages
\* are the library's.
PatchLibc(f, then) ==
  /\ step = f /\ step' = then
  /\ LET pages == Patched(Target(f))
         jump == Target(f) .. Target(f) + JUMP_SIZE - 1
         open == Written(Protected(mem, pages, Permissions), jump, Jump(f))
     IN  \/ UNCHANGED <<mem, outcome>>
         \/ /\ \E S \in Begun(Target(f)) \ {{}} : mem' = Protected(mem, S, Permissions)
            /\ outcome' = [outcome EXCEPT ![f] = "loosened"]
         \/ /\ There(pages)
            /\ \E S \in Begun(Target(f)) : mem' = Protected(open, S, {"R", "X"})
            /\ outcome' = [outcome EXCEPT ![f] = "open"]
         \/ /\ There(pages)
            /\ mem' = Protected(open, pages, {"R", "X"})
            /\ outcome' = [outcome EXCEPT ![f] = "patched"]
  /\ UNCHANGED <<at, chosen, loading, info, newStack, heap, libc, libcDebug, lo, mapped>>

LibcNext ==
  \/ Next /\ UNCHANGED upper
  \/ MapLibrary \/ MapSegment \/ LookUpLibc
  \/ PatchLibc("mmap", "sbrk") \/ PatchLibc("sbrk", "map")

LibcSpec == LibcInit /\ [][LibcNext]_<<vars, upper>>
-----------------------------------------------------------------------------
(* Properties.                                                             *)

\* Every trampoline that patchLibc may write for l is within l.
Confined(l) ==
  \A i \in DOMAIN l.segments, f \in Functions :
    IsCode(l.segments[i].prot) /\ l.symbols[f] # NotFound =>
      ROUND_DOWN(l.segments[i].vaddr) + l.symbols[f] + JUMP_SIZE <= Span(l)

\* What ld.so maps and patchLibc writes leaves ld.so as the launch made it (from
\* the first segment on), provided that the distance of mmap and sbrk from every
\* segment to execute stays within the library.  patchLibc does not look whether
\* it does, and writes wherever that is (mmap-wrapper.c:67-68).
LdSoKept == libc = NoFile \/ Confined(libc) => SegmentsRight

\* The same of the upper half's heap, which the trampolines in ld.so and in libc
\* might open or close (kernel-loader.c:432-453, mmap-wrapper.c:67-68).
HeapKept == libc = NoFile \/ Confined(libc) => HeapReady

CodeFirst(l) == \A i \in DOMAIN l.segments : IsCode(l.segments[i].prot) <=> i = 1

\* A library whose first segment is the one to execute is in memory as its file
\* says, except that mmap and sbrk of a libc are jumps to the lower half and
\* nothing else is, and no page of its code stays writable unless the kernel
\* refused to change its protection.  (Of other libraries the wrapper takes the
\* segment to execute for the start of the library.)
LibraryRight ==
  step = "map" /\ mapped > 0 /\ CodeFirst(libc) =>
    \A i \in 1 .. mapped :
      LET s == libc.segments[i] IN
      \A a \in s.vaddr .. s.vaddr + s.filesz - 1 :
        LET now == mem[lo + a]
            of(f) == a \in libc.symbols[f] .. libc.symbols[f] + JUMP_SIZE - 1
        IN  /\ now.data = IF \E f \in Functions : of(f) /\ outcome[f] \in {"open", "patched"}
                          THEN Jump(CHOOSE f \in Functions : of(f))
                          ELSE Byte(s.offset + (a - s.vaddr))
            /\ \/ now.prot = s.prot
               \/ IsCode(s.prot) /\ \E f \in Functions : outcome[f] \in {"loosened", "open"}

\* patchLibc ends the process only over a libc without a symbol table, in it or
\* in the debug file it links to; of a libc without mmap or sbrk it says so and
\* goes on.
LibcDiesOnlyStripped ==
  step = "died" =>
    libc.name = "libc-" /\ ~libc.symtab /\ (libc.debuglink => libcDebug = NoFile)
=============================================================================
