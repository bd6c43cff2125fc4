---------------------------- MODULE KernelLoader ----------------------------
(***************************************************************************)
(* The launch of a rank: runRtld (kernel-loader.c) maps the segments of    *)
(* ld.so (custom-loader.c), looks up mmap and sbrk in it, makes a stack    *)
(* and a heap for the upper half, patches the two functions so that they   *)
(* jump into the loader (trampoline_setup.c), writes addr.bin and jumps to *)
(* ld.so.  One thread does it all.  What can go wrong is in the files, the *)
(* environment and the calls of the kernel.  (Where the code ignores that  *)
(* a call failed, so does the model.)                                      *)
(*                                                                         *)
(* Memory is a function of the address.  The bytes of a file are told      *)
(* apart by their offset, what is on the new stack is a record of its own. *)
(* That the rest of the address space is booked first is in RankSpace,     *)
(* addr.bin is in RankInfo.                                                *)
(***************************************************************************)
EXTENDS PageArith, SymbolLookup, StackCopy, FiniteSets

CONSTANTS
  Elfs,       \* files TARGET_LD may name
  Stacks,     \* stacks the kernel may give to the loader
  LdSoBase,   \* where custom-loader.c wants ld.so, 3 GB into the window
  Top,        \* end of the addresses
  Places,     \* addresses the kernel chooses from for a new mapping
  JUMP_SIZE,  \* sizeof(asm_jump)
  STACK_SIZE, \* size of the area of the stack
  HEAP_SIZE   \* size of the heap

Addrs == 0 .. Top - 1
PAGE_OFFSET(x) == x - ROUND_DOWN(x)
Permissions == {"R", "W", "X"}

\* The functions that are patched.
Functions == {"mmap", "sbrk"}

\* What is in memory beside bytes of files, which are their offsets.
Zero == -1
Nothing == -2
Jump(f) == IF f = "mmap" THEN -3 ELSE -4
Unmapped == [data |-> Nothing, prot |-> {}]

Segment == [vaddr : Nat, offset : Nat, filesz : Nat, memsz : Nat, prot : SUBSET Permissions]

\* The bytes of a function that a trampoline takes.
Patch(elf, f) ==
  IF elf.symbols[f] = NotFound THEN {}
  ELSE LdSoBase + elf.symbols[f] .. LdSoBase + elf.symbols[f] + JUMP_SIZE - 1

\* An ld.so as linkers make it: the segments are in order and share no page,
\* the first is at 0, bss is only where one can write; the functions that are
\* there are long enough for a trampoline, do not overlap, and are in segments
\* to read and execute.
IsLdSo(elf) ==
  LET s == elf.segments IN
  /\ {"segments", "symbols", "symtab", "debuglink"} \subseteq DOMAIN elf
  /\ {elf.symtab, elf.debuglink} \subseteq BOOLEAN
  /\ s \in Seq(Segment) /\ s # <<>>
  /\ s[1].vaddr = 0 /\ s[1].memsz = s[1].filesz
  /\ \A i \in DOMAIN s :
       /\ s[i].filesz <= s[i].memsz
       /\ s[i].filesz < s[i].memsz => "W" \in s[i].prot
       /\ s[i].vaddr % PAGE_SIZE = s[i].offset % PAGE_SIZE
       /\ LdSoBase + ROUND_UP(s[i].vaddr + s[i].memsz) <= Top
  /\ \A i, j \in DOMAIN s :
       i < j => ROUND_UP(s[i].vaddr + s[i].memsz) <= ROUND_DOWN(s[j].vaddr)
  /\ elf.symbols \in [Functions -> Nat \cup {NotFound}]
  /\ \A f \in Functions : elf.symbols[f] # NotFound => \E i \in DOMAIN s :
       /\ s[i].prot = {"R", "X"} /\ s[i].vaddr <= elf.symbols[f]
       /\ elf.symbols[f] + JUMP_SIZE <= s[i].vaddr + s[i].filesz
  /\ Patch(elf, "mmap") \cap Patch(elf, "sbrk") = {}

ASSUME LoaderAssumption ==
  /\ \A elf \in Elfs : IsLdSo(elf)
  /\ {Top, STACK_SIZE, HEAP_SIZE} \subseteq Nat /\ LdSoBase \in Nat \ {0}
  /\ LdSoBase = ROUND_DOWN(LdSoBase) /\ Places \subseteq Addrs \ {0}
  /\ JUMP_SIZE \in 1 .. PAGE_SIZE /\ PAGE_SIZE <= HEAP_SIZE

ASSUME StacksAssumption == \A s \in Stacks : IsStack(s)

\* 100 pages, in the code.
ASSUME HeapAssumption == HEAP_SIZE = ROUND_DOWN(HEAP_SIZE)

VARIABLES
  at,        \* what runRtld does next; "jumped", "exited" (it returned -1),
             \* "died" (a failed assertion, a fault) or "unbooked" (the same,
             \* while the address space is booked)
  ldso,      \* the file TARGET_LD names
  debug,     \* the file its debug link names
  stack,     \* the stack the kernel gave
  procfs,    \* whether /proc/self/stat and /proc/self/maps can be read
  next,      \* the next segment
  firstTime, base, \* the statics of map_elf_interpreter_load_segment
  info,      \* DynObjInfo_t
  lost,      \* segments that could not be mapped
  mem,       \* by address, [data, prot]
  newStack, heap

chosen == <<ldso, debug, stack, procfs>>
loading == <<next, firstTime, base, lost>>
vars == <<at, chosen, loading, info, mem, newStack, heap>>

NULL == 0
NoStack == [lo |-> NULL]
NoHeap == [lo |-> NULL, uhBrk |-> NULL, endOfHeap |-> NULL, guarded |-> FALSE]

Init ==
  /\ at = "start"
  /\ ldso \in Elfs \cup {NoFile} /\ debug \in Elfs \cup {NoFile}
  /\ stack \in Stacks /\ procfs \in BOOLEAN
  \* It is the debug file of that library.
  /\ debug # NoFile /\ ldso # NoFile => debug.symbols = ldso.symbols
  /\ next = 1 /\ firstTime = TRUE /\ base = NULL /\ lost = {}
  /\ info = [baseAddr |-> NULL, mmap |-> NULL, sbrk |-> NULL]
  /\ mem = [a \in Addrs |-> Unmapped]
  /\ newStack = NoStack /\ heap = NoHeap

\* A return of -1 before the jump, or an abort.
Ends(how) ==
  /\ at' = how
  /\ UNCHANGED <<chosen, loading, info, mem, newStack, heap>>

\* atoi(NULL) faults; booking the address space, whose mappings are asserted
\* (confine_addr_space, in RankSpace); usage; the first read of a file that is
\* not there.
Start ==
  /\ at = "start"
  /\ LET ranked == HasEnv(stack, "RANK_ID")
         told == HasEnv(stack, "TARGET_LD") /\ HasEnv(stack, "UH_PRELOAD")
     IN  \/ ~ranked /\ Ends("died")
         \/ ranked /\ Ends("unbooked")
         \/ ranked /\ ~told /\ Ends("exited")
         \/ ranked /\ told /\ ldso = NoFile /\ Ends("died")
         \/ /\ ranked /\ told /\ ldso # NoFile
            /\ at' = "segments"
            /\ UNCHANGED <<chosen, loading, info, mem, newStack, heap>>
-----------------------------------------------------------------------------
(* map_elf_interpreter_load_segment.                                       *)

\* The addresses of S mapped anew, with another protection, and written to
\* (where that is possible: elsewhere the program would end).
Mapped(m, S, p) == [a \in Addrs |-> IF a \in S THEN [data |-> Zero, prot |-> p] ELSE m[a]]
Protected(m, S, p) == [a \in Addrs |-> IF a \in S THEN [m[a] EXCEPT !.prot = p] ELSE m[a]]
Written(m, S, d) ==
  [a \in Addrs |-> IF a \in S /\ "W" \in m[a].prot THEN [m[a] EXCEPT !.data = d] ELSE m[a]]

\* Mutant: the offset of the first byte in its page is forgotten.
MutantSegmentSize(s) == ROUND_UP(s.filesz)

SegmentSize(s) == ROUND_UP(s.filesz + PAGE_OFFSET(s.vaddr))

FileMapped(m, s, b) ==
  LET addr == ROUND_DOWN(b + s.vaddr)
      offset == s.offset - PAGE_OFFSET(s.vaddr)
  IN  [a \in Addrs |-> IF a \in addr .. addr + SegmentSize(s) - 1
                       THEN [data |-> offset + (a - addr), prot |-> s.prot] ELSE m[a]]

StartBss(s, b) == b + s.vaddr + s.filesz
EndBss(s, b) == b + s.vaddr + s.memsz

\* The rest of the last page, when the segment has a bss.
ClearedPart(s, b) ==
  IF s.memsz > s.filesz THEN StartBss(s, b) .. ROUND_UP(StartBss(s, b)) - 1 ELSE {}

\* The pages after it.
BssPages(s, b) == ROUND_UP(StartBss(s, b)) .. ROUND_UP(EndBss(s, b)) - 1

Continues(lastBase, isLost) ==
  /\ next' = next + 1 /\ base' = lastBase
  /\ lost' = IF isLost THEN lost \cup {next} ELSE lost
  /\ firstTime' = (firstTime /\ isLost)
  \* load_elf_interpreter returns what the first call returned.
  /\ info' = IF next = 1 /\ ~isLost THEN [info EXCEPT !.baseAddr = lastBase] ELSE info
  /\ UNCHANGED <<at, chosen, newStack, heap>>

LoadSegment ==
  /\ at = "segments" /\ next <= Len(ldso.segments)
  /\ LET s == ldso.segments[next]
         b == IF firstTime THEN LdSoBase ELSE base
         file == Written(FileMapped(mem, s, b), ClearedPart(s, b), Zero)
     IN  \* mmap fails, as it does for no bytes
         \/ Continues(b, TRUE) /\ mem' = mem
         \* mmap of the bss fails
         \/ SegmentSize(s) > 0 /\ BssPages(s, b) # {} /\ Continues(b, TRUE) /\ mem' = file
         \/ /\ SegmentSize(s) > 0
            /\ mem' = Mapped(file, BssPages(s, b), s.prot)
            /\ Continues(IF ~firstTime THEN b
                         ELSE IF BssPages(s, b) = {} THEN ROUND_DOWN(b + s.vaddr)
                         ELSE ROUND_UP(StartBss(s, b)), FALSE)

\* Mutant: && for ||.
MutantMissing(m, b) == NotFound = m /\ NotFound = b

Missing(m, b) == NotFound = m \/ NotFound = b

\* The rest of safeLoadLib: the two symbols; and runRtld's check.
LookUp ==
  /\ at = "segments" /\ next > Len(ldso.segments)
  /\ \E m \in get_symbol_offset(ldso, debug, "mmap"), b \in get_symbol_offset(ldso, debug, "sbrk") :
       IF Crash \in {m, b} THEN Ends("died")
       ELSE IF info.baseAddr = NULL THEN Ends("exited")
       ELSE /\ at' = "stack"
            /\ info' = IF Missing(m, b) THEN info
                       ELSE [info EXCEPT !.mmap = info.baseAddr + m, !.sbrk = info.baseAddr + b]
            /\ UNCHANGED <<chosen, loading, mem, newStack, heap>>
-----------------------------------------------------------------------------
(* Stack, heap and trampolines.                                            *)

\* Where the kernel may map n bytes.
Room(lo, n) ==
  /\ lo \in Places /\ lo = ROUND_DOWN(lo)
  /\ \A a \in lo .. lo + n - 1 : a \in Addrs /\ mem[a] = Unmapped

Auxv == [AT_PHDR |-> "ldso", AT_PHNUM |-> "ldso", AT_ENTRY |-> "ldso"]

\* Nobody looks whether getStackRegion and getProcStatField found anything:
\* without that the area and the end of the old stack are anything, and either
\* mmap refuses to map as much or deepCopyStack faults.
createNewStackForRtld ==
  /\ at = "stack"
  /\ \/ Ends("exited")
     \/ ~procfs /\ Ends("died")
     \/ \E lo \in Addrs :
          /\ procfs /\ Room(lo, STACK_SIZE)
          /\ mem' = Mapped(mem, lo .. lo + STACK_SIZE - 1, {"R", "W"})
          /\ newStack' = deepCopyStack(stack, lo, Auxv)
          /\ at' = "heap"
          /\ UNCHANGED <<chosen, loading, info, heap>>

\* Mutant: the end is counted from the break.
MutantHeapAt(lo, guarded) ==
  [lo |-> lo, uhBrk |-> lo + PAGE_SIZE, endOfHeap |-> lo + PAGE_SIZE + HEAP_SIZE,
   guarded |-> guarded]

HeapAt(lo, guarded) ==
  [lo |-> lo, uhBrk |-> lo + PAGE_SIZE, endOfHeap |-> lo + HEAP_SIZE, guarded |-> guarded]

\* The first page is made inaccessible, if mprotect does it: what it returns is
\* not looked at.  (guarded says which; it is not in the code.)
createNewHeapForRtld ==
  /\ at = "heap"
  /\ \/ Ends("exited")
     \/ \E lo \in Addrs, guarded \in BOOLEAN :
          /\ Room(lo, HEAP_SIZE)
          /\ LET area == Mapped(mem, lo .. lo + HEAP_SIZE - 1, {"R", "W"})
             IN  mem' = IF guarded THEN Protected(area, lo .. lo + PAGE_SIZE - 1, {}) ELSE area
          /\ heap' = HeapAt(lo, guarded)
          /\ at' = "mmap"
          /\ UNCHANGED <<chosen, loading, info, newStack>>

\* The pages whose protection insertTrampoline changes.
Patched(addr) ==
  LET page == ROUND_DOWN(addr)
      length == IF addr + JUMP_SIZE - page > PAGE_SIZE THEN 2 * PAGE_SIZE ELSE PAGE_SIZE
  IN  page .. page + length - 1

\* Both calls of mprotect, and the copying between them.
insertTrampoline(f, then) ==
  /\ at = f
  /\ LET addr == info[f]
         jump == addr .. addr + JUMP_SIZE - 1
     IN  \/ Ends("exited")
         \/ /\ addr # NULL
            /\ \A a \in Patched(addr) : a \in Addrs /\ mem[a] # Unmapped
            /\ mem' = Protected(
                 Written(Protected(mem, Patched(addr), Permissions), jump, Jump(f)),
                 Patched(addr), {"R", "X"})
            /\ at' = then
            /\ UNCHANGED <<chosen, loading, info, newStack, heap>>

\* setupLowerHalfInfo and the jump.
EnterLdSo == at = "info" /\ (Ends("exited") \/ Ends("jumped"))
-----------------------------------------------------------------------------
Next ==
  \/ Start \/ LoadSegment \/ LookUp
  \/ createNewStackForRtld \/ createNewHeapForRtld
  \/ insertTrampoline("mmap", "sbrk") \/ insertTrampoline("sbrk", "info")
  \/ EnterLdSo

Spec == Init /\ [][Next]_vars
-----------------------------------------------------------------------------
(* Properties.                                                             *)

TypeOK ==
  /\ at \in {"start", "segments", "stack", "heap", "mmap", "sbrk", "info",
            "jumped", "exited", "died", "unbooked"}
  /\ ldso \in Elfs \cup {NoFile} /\ debug \in Elfs \cup {NoFile}
  /\ stack \in Stacks /\ procfs \in BOOLEAN
  /\ next \in Nat \ {0} /\ firstTime \in BOOLEAN /\ base \in Nat
  /\ lost \subseteq 1 .. next - 1
  /\ info \in [{"baseAddr", "mmap", "sbrk"} -> {NULL} \cup LdSoBase .. Top]
  /\ mem \in [Addrs -> [data : Int, prot : SUBSET Permissions]]
  /\ heap \in [lo : Nat, uhBrk : Nat, endOfHeap : Nat, guarded : BOOLEAN]

Runs == at \notin {"exited", "died", "unbooked"}
Jumps ==
  {f \in Functions : at \in {"info", "jumped"} \/ (at = "sbrk" /\ f = "mmap")}

\* What ELF promises at address a of segment s, and the trampolines.
Promised(s, a) ==
  IF \E f \in Jumps : a \in Patch(ldso, f)
  THEN Jump(CHOOSE f \in Jumps : a \in Patch(ldso, f))
  ELSE IF a < StartBss(s, LdSoBase) THEN s.offset + (a - (LdSoBase + s.vaddr))
  ELSE Zero

\* The address space of the ld.so that runs is what its file says (bytes of
\* the file, zeros after them, and the permissions) except for the two jumps,
\* which are there from the first instruction on.  The loader ignores that a
\* segment but the first could not be mapped: those are not spoken of.
SegmentsRight ==
  Runs /\ 1 \notin lost =>
    \A i \in 1 .. next - 1 : i \notin lost =>
      LET s == ldso.segments[i] IN
      \A a \in LdSoBase + s.vaddr .. EndBss(s, LdSoBase) - 1 :
        mem[a] = [data |-> Promised(s, a), prot |-> s.prot]

\* The upper half's heap is writable from its break to its end, and guarded
\* below the break when mprotect did that: nothing that is patched or mapped
\* later is in it.
HeapReady ==
  at = "jumped" /\ lost = {} =>
    \A a \in heap.lo .. heap.endOfHeap - 1 :
      mem[a].prot = IF a < heap.uhBrk /\ heap.guarded THEN {} ELSE {"R", "W"}

\* ld.so finds the arguments and the environment of the loader on its own
\* stack, but is itself the first argument, and the first variable that
\* mentions UH_PRELOAD is renamed: of these no pointer is left into the old
\* stack.  (Those of the auxiliary vector are not moved.)
SeesTheProgram ==
  at = "jumped" =>
    LET points(p, string) == p \in DOMAIN newStack.text /\ newStack.text[p] = string
        first(i) == /\ EnvNames(stack)[i] \in Mentioning
                    /\ \A j \in 1 .. i - 1 : EnvNames(stack)[j] \notin Mentioning
    IN  /\ \A i \in DOMAIN stack.argv :
             points(newStack.argv[i],
               stack.text[IF i = 1 THEN getenv(stack, "TARGET_LD") ELSE stack.argv[i]])
        /\ \A i \in DOMAIN stack.env :
             points(newStack.env[i],
               IF first(i) THEN Renamed(EnvNames(stack)[i]) ELSE EnvNames(stack)[i])

\* Beside the assertions about booked ranges, the loader crashes in place of
\* reporting an error only when RANK_ID is not set, when ld.so cannot be read,
\* when ld.so has no symbol table and no link to a debug file that is there, and
\* when /proc/self/stat or /proc/self/maps cannot be read.
DiesOnlyUnprepared ==
  at = "died" =>
    \/ ~HasEnv(stack, "RANK_ID") \/ ldso = NoFile \/ ~procfs
    \/ ~ldso.symtab /\ (ldso.debuglink => debug = NoFile)
=============================================================================
