--------------------------- MODULE MCKernelLoader ---------------------------
(* The files, places and stacks of a launch for TLC.  A page has four bytes. *)
EXTENDS KernelLoader

Seg(v, o, f, m, p) == [vaddr |-> v, offset |-> o, filesz |-> f, memsz |-> m, prot |-> p]
RX == {"R", "X"}
RW == {"R", "W"}

\* Code and data: the data starts inside a page and has a bss that ends pages
\* later.  mmap's first bytes cross a page.
Classic == <<Seg(0, 0, 7, 7, RX), Seg(14, 10, 3, 9, RW)>>
ClassicSymbols == [mmap |-> 3, sbrk |-> 5]

\* Four segments.  The data ends with its page, the bss fills the next.
Modern == <<Seg(0, 0, 2, 2, {"R"}), Seg(4, 4, 8, 8, RX),
            Seg(12, 12, 1, 1, {"R"}), Seg(18, 14, 2, 4, RW)>>
ModernSymbols == [mmap |-> 10, sbrk |-> 7]

\* Nothing but bss in the second segment.
NoData == <<Seg(0, 0, 7, 7, RX), Seg(8, 8, 0, 3, RW)>>

File(segs, syms, t, l) ==
  [segments |-> segs, symbols |-> syms, symtab |-> t, debuglink |-> l]
AllElfs ==
  {File(Classic, ClassicSymbols, t, l) : t, l \in BOOLEAN}
    \cup {File(Modern, ModernSymbols, t, TRUE) : t \in BOOLEAN}
    \cup {File(NoData, ClassicSymbols, TRUE, FALSE),
          File(Classic, [mmap |-> 3, sbrk |-> NotFound], TRUE, FALSE)}

AllPlaces == {4, 8, 32, 36, 40, 44, 48, 52}

\* A stack with those variables: two arguments, strings behind the pointers.
StackOf(names) ==
  LET n == Len(names)
      Env(i) == 170 + 2 * i
      strings == [loader |-> 166, program |-> 167, bytes |-> 165]
  IN  [lo |-> 140, start |-> 150,
       argv |-> <<strings.loader, strings.program>>, env |-> [i \in 1 .. n |-> Env(i)],
       auxv |-> <<[type |-> "AT_PHDR", val |-> "loader"],
                  [type |-> "AT_RANDOM", val |-> strings.bytes],
                  [type |-> "AT_EXECFN", val |-> strings.loader]>>,
       text |-> [a \in {strings[k] : k \in DOMAIN strings} \cup {Env(i) : i \in 1 .. n}
                        \cup {Env(i) + 1 : i \in 1 .. n} |->
                   IF a < 170 THEN CHOOSE k \in DOMAIN strings : strings[k] = a
                   ELSE IF a % 2 = 0 THEN names[(a - 170) \div 2]
                   ELSE IF names[(a - 171) \div 2] = "TARGET_LD" THEN "ld.so" ELSE "value"]]
Environments ==
  {<<"RANK_ID", "TARGET_LD", "UH_PRELOAD">>, <<"UH_PRELOAD", "RANK_ID", "TARGET_LD">>,
   <<"OTHER_MENTIONING", "TARGET_LD", "UH_PRELOAD", "RANK_ID">>,
   <<"TARGET_LD", "UH_PRELOAD">>, <<"RANK_ID", "TARGET_LD">>}
AllStacks == {StackOf(e) : e \in Environments}
=============================================================================
