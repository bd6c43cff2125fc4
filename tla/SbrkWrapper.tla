---------------------------- MODULE SbrkWrapper ----------------------------
(***************************************************************************)
(* The break of the upper half, kept by the lower half's sbrk wrapper.     *)
(*                                                                         *)
(* The heap starts as a reservation of HEAP_PAGES pages, the first of them *)
(* inaccessible.  The wrapper moves curbrk by bytes and maps whole pages,  *)
(* always with MAP_FIXED at endOfHeap, when the break passes it.  curbrk   *)
(* and endOfHeap are statics of the lower half: a restart brings up a new  *)
(* lower half, which has neither, and pages of the heap may be missing in  *)
(* it: a checkpoint saves of one line of /proc/self/maps at most one       *)
(* recorded region, and nothing that cannot be read.                       *)
(*                                                                         *)
(* Memory is modelled by page, the break by byte.  The address 0 stands    *)
(* for NULL, and page 0 cannot be mapped (vm.mmap_min_addr).  The caller   *)
(* is malloc: it never gives back more than it was granted.                *)
(***************************************************************************)
EXTENDS PageArith

CONSTANTS
  HEAP_PAGES,   \* pages reserved at start (100 in the code)
  Base,         \* page where the reservation begins
  TopPage,      \* user addresses end before this page
  Neighbours,   \* pages that other mappings of the process use
  Increments,   \* the arguments sbrk is called with
  WORD,         \* number of values of uintptr_t
  MaxRestarts   \* bound on restarts

Pages == 0 .. TopPage - 1
Reservation == Base .. Base + HEAP_PAGES - 1
Start(p) == p * PAGE_SIZE
heapStart == Start(Base + 1)
NULL == 0
Error == -1

ASSUME LayoutAssumption ==
  /\ HEAP_PAGES \in Nat \ {0, 1}
  /\ Base \in Nat \ {0}
  /\ TopPage \in Nat
  /\ Base + HEAP_PAGES <= TopPage
  /\ Neighbours \subseteq Pages \ Reservation
  /\ Increments \subseteq Int
  /\ WORD \in Nat
  /\ MaxRestarts \in Nat

VARIABLES
  curbrk,       \* __curbrk
  endOfHeap,    \* __endOfHeap
  mem,          \* what each page holds
  programBrk,   \* the break as the program knows it from sbrk's answers
  ret,          \* what sbrk returned last
  restarts

vars == <<curbrk, endOfHeap, mem, programBrk, ret, restarts>>

\* Not mapped; inaccessible; mapped and never written; written by the
\* application; part of some other mapping.
Contents == {"free", "guard", "zero", "data", "other"}

\* createNewHeapForRtld, and the rest of the address space around it.
Init ==
  /\ mem = [p \in Pages |-> CASE p = Base -> "guard"
                              [] p \in Reservation \ {Base} -> "zero"
                              [] p \in Neighbours -> "other"
                              [] OTHER -> "free"]
  /\ curbrk = heapStart
  /\ endOfHeap = ROUND_UP(Start(Base + HEAP_PAGES))
  /\ programBrk = heapStart
  /\ ret = NULL
  /\ restarts = 0

\* The application fills what it has been granted, as far as that is there (a
\* page that a restart has lost would end the process).
Touch ==
  /\ mem' = [p \in Pages |->
               IF Start(p) >= heapStart /\ Start(p) < programBrk
                  /\ mem[p] \in {"zero", "data"}
               THEN "data" ELSE mem[p]]
  /\ UNCHANGED <<curbrk, endOfHeap, programBrk, ret, restarts>>

\* Without a break, brk(0) is asked, and its answer, which goes to libc's own
\* variable, is not seen here: the end becomes NULL too.
KnownEnd == IF curbrk = NULL THEN curbrk ELSE endOfHeap

Fails ==
  /\ ret' = Error
  /\ endOfHeap' = KnownEnd
  /\ UNCHANGED <<curbrk, mem, programBrk, restarts>>

\* Mutant: the sum is not checked.
MutantNeverOverflows(increment) == FALSE

\* The guard of the wrapper on the sum, in the width of a pointer.
Overflows(increment) ==
  IF increment > 0 THEN curbrk + increment >= WORD ELSE curbrk < -increment

\* malloc does not give back what it never got.
Legal(increment) == programBrk + increment >= heapStart

SbrkQuery ==
  /\ ret' = curbrk
  /\ endOfHeap' = KnownEnd
  /\ UNCHANGED <<curbrk, mem, programBrk, restarts>>

SbrkOverflows(increment) ==
  /\ Legal(increment)
  /\ Overflows(increment)
  /\ Fails

\* Mutant: the end is rounded down.
MutantEndDown(newbrk) == ROUND_DOWN(newbrk)

\* Mutant: the end is taken a page too far.
MutantEndFar(newbrk) == ROUND_UP(newbrk) + PAGE_SIZE

\* Mutant: the end does not follow a break that goes down.
MutantEndStays(newbrk) ==
  IF newbrk > endOfHeap THEN ROUND_UP(newbrk) ELSE endOfHeap

\* The new end: it follows the break, upwards and downwards.
NewEnd(newbrk) == ROUND_UP(newbrk)

Moves(increment) ==
  /\ curbrk' = curbrk + increment
  /\ endOfHeap' = NewEnd(curbrk + increment)
  /\ programBrk' = programBrk + increment
  /\ ret' = curbrk
  /\ UNCHANGED restarts

Beyond(increment) == curbrk + increment > KnownEnd

SbrkWithin(increment) ==
  /\ increment # 0
  /\ Legal(increment)
  /\ ~Overflows(increment)
  /\ ~Beyond(increment)
  /\ Moves(increment)
  /\ UNCHANGED mem

\* The pages from endOfHeap to the new break.
MappedFrom == KnownEnd
Grown(increment) ==
  {p \in Pages : /\ Start(p) >= MappedFrom
                 /\ Start(p) < MappedFrom
                                 + ROUND_UP(curbrk + increment - MappedFrom)}

\* Mutant: without MAP_FIXED NULL is as good an address as any.
MutantNoFixed(increment) ==
  MappedFrom + ROUND_UP(curbrk + increment - MappedFrom) <= Start(TopPage)

\* A fixed mapping at NULL is refused, as is one beyond the user's addresses.
Mappable(increment) ==
  /\ MappedFrom # NULL
  /\ MappedFrom + ROUND_UP(curbrk + increment - MappedFrom) <= Start(TopPage)

\* MAP_FIXED replaces whatever the pages were by zeroes.
SbrkGrows(increment) ==
  /\ Legal(increment)
  /\ ~Overflows(increment)
  /\ Beyond(increment)
  /\ Mappable(increment)
  /\ mem' = [p \in Pages |-> IF p \in Grown(increment) THEN "zero" ELSE mem[p]]
  /\ Moves(increment)

\* mmap refuses the range, or is out of memory.
SbrkGrowFails(increment) ==
  /\ Legal(increment)
  /\ ~Overflows(increment)
  /\ Beyond(increment)
  /\ Fails

\* What an image may lack: never is a page there that cannot be read, and of
\* the others any may be missing.
Unsaved(lost) == \A p \in Pages : mem[p] = "guard" => p \in lost

\* The upper half's memory is restored under a new lower half.
Restart ==
  /\ restarts < MaxRestarts
  /\ restarts' = restarts + 1
  /\ curbrk' = NULL
  /\ endOfHeap' = NULL
  /\ \E lost \in SUBSET Pages :
       /\ Unsaved(lost)
       /\ mem' = [p \in Pages |-> IF p \in lost THEN "free" ELSE mem[p]]
  /\ UNCHANGED <<programBrk, ret>>

Sbrk(increment) ==
  \/ SbrkOverflows(increment)
  \/ SbrkWithin(increment)
  \/ SbrkGrows(increment)
  \/ SbrkGrowFails(increment)

Next == Touch \/ SbrkQuery \/ Restart \/ \E i \in Increments : Sbrk(i)

Spec == Init /\ [][Next]_vars
-----------------------------------------------------------------------------
(* Properties.                                                             *)

TypeOK ==
  /\ curbrk \in Nat
  /\ endOfHeap \in Nat
  /\ mem \in [Pages -> Contents]
  /\ programBrk \in Nat
  /\ ret \in Nat \cup {Error}
  /\ restarts \in Nat

\* The bytes the program may use.
Live(p, brk) == Start(p) >= heapStart /\ Start(p) < brk

\* In a process that was not restarted, all the program was granted is there to
\* be used, also after shrinking and growing again (sbrk-wrapper.c:69-80).
GrantedIsMapped ==
  restarts = 0 =>
    /\ programBrk <= Start(TopPage)
    /\ \A p \in Pages : Live(p, programBrk) => mem[p] \in {"zero", "data"}

\* No move of the break wipes what the program keeps: endOfHeap never falls
\* below a page in use, so MAP_FIXED never lands on one (sbrk-wrapper.c:69-79).
\* A restart is no move of the break, and may lose pages.
LiveSurvives ==
  [][\A p \in Pages :
       /\ Live(p, programBrk) /\ Live(p, programBrk')
       /\ mem[p] = "data" /\ restarts' = restarts
       => mem'[p] = "data"]_vars

\* A page that the break newly passes is full of zeroes, though it may have
\* been granted, written and given back before: malloc relies on it
\* (endOfHeap follows the break downwards, sbrk-wrapper.c:79).
GrantedIsZero ==
  [][\A p \in Pages :
       Live(p, programBrk') /\ Start(p) >= programBrk => mem'[p] = "zero"]_vars

\* After a restart the wrapper knows no break, and asking for one does not
\* bring it back (brk's answer goes to libc's variable, sbrk-wrapper.c:48-54):
\* no call succeeds in moving the break from NULL or in mapping anything there
\* (sbrk-wrapper.c:62-77).
LostBreakStays ==
  [][restarts > 0 => /\ UNCHANGED <<curbrk, programBrk>>
                     /\ \A p \in Pages : mem[p] = "free" => mem'[p] = "free"]_vars
=============================================================================
