----------------------------- MODULE MCLibcLoad -----------------------------
(* An instance of LibcLoad for TLC. *)
EXTENDS LibcLoad, MCKernelLoader

\* Code first, with an mmap that crosses a page; and code second, where the
\* same distance from the code is in the code for mmap, in the data for sbrk.
OldLayout == <<Seg(0, 0, 7, 7, RX), Seg(10, 6, 2, 2, RW)>>
NewLayout == <<Seg(0, 0, 3, 3, {"R"}), Seg(4, 4, 8, 8, RX), Seg(14, 14, 2, 2, RW)>>
\* The same distance crosses the end of the library for mmap, and is beyond it for sbrk.
FarLayout == <<Seg(0, 0, 3, 3, {"R"}), Seg(4, 4, 8, 8, RX)>>

Library(name, segs, syms, t, l) ==
  [name |-> name, segments |-> segs, symbols |-> syms, symtab |-> t, debuglink |-> l]
AllLibraries ==
  {Library("libc-", OldLayout, ClassicSymbols, t, TRUE) : t \in BOOLEAN}
    \cup {Library("libc-", OldLayout, ClassicSymbols, FALSE, FALSE),
          Library("libc-", OldLayout, [mmap |-> NotFound, sbrk |-> 5], TRUE, FALSE),
          Library("libc-", NewLayout, [mmap |-> 4, sbrk |-> 10], TRUE, FALSE),
          Library("libc-", FarLayout, [mmap |-> 7, sbrk |-> 10], TRUE, FALSE),
          Library("libm-", OldLayout, ClassicSymbols, TRUE, FALSE)}
=============================================================================
