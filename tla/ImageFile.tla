----------------------------- MODULE ImageFile -----------------------------
(***************************************************************************)
(* The image file of one checkpoint: written block after block by          *)
(* writeAll, read back block after block by readAll (utils.c).             *)
(*                                                                         *)
(* The file is the context, then for every region a header and the         *)
(* region's data (mem-ckpt.c).  Neither the number of regions nor an end   *)
(* mark is written: the reader goes on until a header read finds nothing   *)
(* (mem-restore.c).  System calls transfer any part of what is asked, may  *)
(* be interrupted, and may fail; the writer ignores failures, and goes on  *)
(* with the next block, which may succeed.  The process may die while it   *)
(* writes.                                                                 *)
(*                                                                         *)
(* The file consists of cells, named by the block they were written for    *)
(* and their place in it; what bytes they hold is left out.                *)
(***************************************************************************)
EXTENDS Integers, Sequences

CONSTANTS
  CtxSize,        \* cells of the context
  HeaderSize,     \* cells of a region's header
  Sizes,          \* cells of each region's data, in the order of the file
  MayCrash,       \* may the writer be killed?
  MayFail,        \* may writes fail?  (A full disk: all from some time on.)
  MaxInterrupts,  \* bound on interrupted system calls
  MaxReadErrors   \* bound on failing reads

ASSUME ImageAssumption ==
  /\ CtxSize \in Nat \ {0} /\ HeaderSize \in Nat \ {0}
  /\ Sizes \in Seq(Nat \ {0})
  /\ MayCrash \in BOOLEAN /\ MayFail \in BOOLEAN
  /\ MaxInterrupts \in Nat /\ MaxReadErrors \in Nat

VARIABLES
  phase,       \* "writing", "written", "reading", "restored" or "refused"
  file,        \* the cells in the file
  cut,         \* was the writer killed, or has a write failed?
  holed,       \* has a later write succeeded?
  intact,      \* the last block written before that, or 0
  block,       \* the block being written
  done,        \* num_written of writeAll for it
  pos,         \* the reader's offset in the file
  want,        \* what is being read: "ctx", "header" or "data"
  buf,         \* what readAll has got so far
  region,      \* the region whose data is read
  memory,      \* what each region holds after the restart, or Unmapped
  interrupts, readErrors

losses == <<cut, holed, intact>>
writer == <<block, done>>
reader == <<pos, want, buf, region, memory>>
bounds == <<interrupts, readErrors>>
vars == <<phase, file, losses, writer, reader, bounds>>
-----------------------------------------------------------------------------
(* Layout.                                                                 *)

Regions == 1 .. Len(Sizes)
LastBlock == 1 + 2 * Len(Sizes)
HeaderOf(r) == 2 * r
DataOf(r) == 2 * r + 1

Size(b) == IF b = 1 THEN CtxSize
           ELSE IF b % 2 = 0 THEN HeaderSize ELSE Sizes[b \div 2]
Cells(b, from, to) == [i \in 1 .. to - from + 1 |-> <<b, from + i - 1>>]
Whole(b) == Cells(b, 1, Size(b))
Cell == {<<b, i>> : b \in 1 .. LastBlock,
                    i \in UNION {1 .. Size(c) : c \in 1 .. LastBlock}}

\* The memory of a region that is not there, and a cell never read.
Unmapped == <<>>
Zero == <<0, 0>>

Init ==
  /\ phase = "writing" /\ file = <<>>
  /\ cut = FALSE /\ holed = FALSE /\ intact = 0
  /\ block = 1 /\ done = 0
  /\ pos = 0 /\ want = "ctx" /\ buf = <<>> /\ region = 0
  /\ memory = [r \in Regions |-> Unmapped]
  /\ interrupts = 0 /\ readErrors = 0
-----------------------------------------------------------------------------
(* The writer.                                                             *)

Writing == phase = "writing" /\ block <= LastBlock

\* Mutant: what a short write has transferred is not skipped afterwards.
MutantProgress(n) == IF done + n = Size(block) THEN done + n ELSE done

\* num_written += rc
Progress(n) == done + n

NextBlock == block' = block + 1 /\ done' = 0

Write(n) ==
  /\ Writing
  /\ file' = file \o Cells(block, done + 1, done + n)
  /\ holed' = cut
  /\ IF Progress(n) < Size(block)
     THEN done' = Progress(n) /\ UNCHANGED <<block, intact>>
     ELSE NextBlock /\ intact' = IF cut THEN intact ELSE block
  /\ UNCHANGED <<phase, cut, reader, bounds>>

\* EINTR or EAGAIN: the loop goes on where it was.
WriteInterrupted ==
  /\ Writing
  /\ interrupts < MaxInterrupts /\ interrupts' = interrupts + 1
  /\ UNCHANGED <<phase, file, losses, writer, reader, readErrors>>

\* Another error ends writeAll with -1; its callers go on with the next block.
WriteFails ==
  /\ Writing /\ MayFail
  /\ cut' = TRUE
  /\ NextBlock
  /\ UNCHANGED <<phase, file, holed, intact, reader, bounds>>

Close ==
  /\ phase = "writing" /\ block > LastBlock
  /\ phase' = "written"
  /\ UNCHANGED <<file, losses, writer, reader, bounds>>

Crash ==
  /\ Writing /\ MayCrash
  /\ phase' = "written" /\ cut' = TRUE
  /\ UNCHANGED <<file, holed, intact, writer, reader, bounds>>
-----------------------------------------------------------------------------
(* The reader.                                                             *)

Reading(what) == phase = "reading" /\ want = what
Wanted == CASE want = "ctx" -> CtxSize
            [] want = "header" -> HeaderSize
            [] OTHER -> Sizes[region]
Short == phase = "reading" /\ Len(buf) < Wanted

\* Mutant: read's 0 is taken for an interruption.
MutantAtEnd == FALSE

\* Mutant: an interruption is taken for the end.
MutantInterrupted == pos = Len(file) \/ interrupts > 0

AtEnd == pos = Len(file)

Expect(what) == want' = what /\ buf' = <<>>
Refuse ==
  /\ phase' = "refused"
  /\ UNCHANGED <<file, losses, writer, reader, bounds>>

\* restoreMemoryForImage opens the image.
Open ==
  /\ phase = "written"
  /\ phase' = "reading"
  /\ UNCHANGED <<file, losses, writer, reader, bounds>>

\* Mutant: the offset moves by what was asked for, not by what came.
MutantOffset(n) == pos + Wanted - Len(buf)

Offset(n) == pos + n

Read(n) ==
  /\ Short /\ n <= Len(file) - pos
  /\ buf' = buf \o SubSeq(file, pos + 1, pos + n)
  /\ pos' = Offset(n)
  /\ UNCHANGED <<phase, file, losses, writer, want, region, memory, bounds>>

ReadInterrupted ==
  /\ Short
  /\ interrupts < MaxInterrupts /\ interrupts' = interrupts + 1
  /\ UNCHANGED <<phase, file, losses, writer, reader, readErrors>>

\* The context is there.
CtxRead ==
  /\ Reading("ctx") /\ ~Short
  /\ Expect("header")
  /\ UNCHANGED <<phase, file, losses, writer, pos, region, memory, bounds>>

\* A header says which region follows; its range is mapped.
HeaderRead ==
  /\ Reading("header")
  /\ \E r \in Regions :
       /\ buf = Whole(HeaderOf(r)) /\ memory[r] = Unmapped
       /\ region' = r
  /\ Expect("data")
  /\ UNCHANGED <<phase, file, losses, writer, pos, memory, bounds>>

\* anyOverlappingRegion, mmap or a nonsensical range refuse anything else.
HeaderRefused ==
  /\ Reading("header") /\ buf # <<>>
  /\ IF Short THEN AtEnd
     ELSE \A r \in Regions : buf # Whole(HeaderOf(r)) \/ memory[r] # Unmapped
  /\ Refuse

Fill(content) ==
  /\ memory' = [memory EXCEPT ![region] = content]
  /\ Expect("header")
  /\ UNCHANGED <<phase, file, losses, writer, pos, region>>

\* Mutant: short data is not noticed.
MutantEnough == ~Short \/ AtEnd

\* bytes < area->size
Enough == ~Short

DataRead ==
  /\ Reading("data") /\ Enough
  /\ Fill(buf)
  /\ UNCHANGED bounds

\* The file ends inside the context (the assertion fails) or a region's data.
EndsEarly ==
  /\ Reading("ctx") \/ Reading("data")
  /\ Short /\ AtEnd
  /\ Refuse

\* A header read that finds nothing ends the loop: the image is restored.
EndsWell ==
  /\ Reading("header") /\ AtEnd /\ buf = <<>>
  /\ phase' = "restored"
  /\ UNCHANGED <<file, losses, writer, reader, bounds>>

FailingRead ==
  /\ Short
  /\ readErrors < MaxReadErrors /\ readErrors' = readErrors + 1

\* A failing read of the context fails the assertion.  One of a header is
\* taken for a header: nothing of it has come, the range is still that of the
\* region before, which is in use ...
ReadFails ==
  /\ Reading("ctx") \/ (Reading("header") /\ buf = <<>>)
  /\ FailingRead
  /\ phase' = "refused"
  /\ UNCHANGED <<file, losses, writer, reader, interrupts>>

\* ... or its first bytes have come, and with them the range.
HeaderHalfRead ==
  /\ Reading("header") /\ buf # <<>>
  /\ FailingRead
  /\ \E r \in Regions :
       /\ buf[1] = <<HeaderOf(r), 1>> /\ memory[r] = Unmapped
       /\ region' = r
  /\ Expect("data")
  /\ UNCHANGED <<phase, file, losses, writer, pos, memory, interrupts>>

\* A failing read of a region's data: -1 compared with a size_t is large.
Padded == [i \in 1 .. Sizes[region] |-> IF i <= Len(buf) THEN buf[i] ELSE Zero]
DataReadFails ==
  /\ Reading("data")
  /\ FailingRead
  /\ Fill(Padded)
  /\ UNCHANGED interrupts
-----------------------------------------------------------------------------
\* A call transfers a part of what is asked.
WriterStep ==
  \/ \E n \in 1 .. Size(block) - done : Write(n)
  \/ WriteInterrupted \/ WriteFails \/ Close

ReaderStep ==
  \/ Open \/ \E n \in 1 .. Wanted - Len(buf) : Read(n)
  \/ ReadInterrupted \/ CtxRead \/ HeaderRead \/ HeaderRefused
  \/ DataRead \/ EndsEarly \/ EndsWell
  \/ ReadFails \/ HeaderHalfRead \/ DataReadFails

Next == WriterStep \/ Crash \/ ReaderStep

\* Both loops run on as long as they have something to do.
Spec == Init /\ [][Next]_vars /\ WF_vars(WriterStep) /\ WF_vars(ReaderStep)
-----------------------------------------------------------------------------
(* Properties.                                                             *)

TypeOK ==
  /\ phase \in {"writing", "written", "reading", "restored", "refused"}
  /\ file \in Seq(Cell)
  /\ cut \in BOOLEAN /\ holed \in BOOLEAN /\ intact \in 0 .. LastBlock
  /\ block \in 1 .. LastBlock + 1 /\ done \in Nat
  /\ pos \in 0 .. Len(file)
  /\ want \in {"ctx", "header", "data"}
  /\ buf \in Seq(Cell)
  /\ region \in Regions \cup {0}
  /\ memory \in [Regions -> Seq(Cell \cup {Zero})]
  /\ interrupts \in 0 .. MaxInterrupts /\ readErrors \in 0 .. MaxReadErrors

Ended == phase \in {"restored", "refused"}

\* An image that was cut short neither by a death of the writer nor by a write
\* that failed comes back whole, however the system calls split and were
\* interrupted (writeAll and readAll, utils.c:9-53).
WholeComesBack ==
  Ended /\ ~cut /\ readErrors = 0 =>
    /\ phase = "restored"
    /\ \A r \in Regions : memory[r] = Whole(DataOf(r))

\* A restart that succeeds has some first regions, each with what was saved in
\* it, and nothing of the others, when nothing was written any more after the
\* first failure: what is cut is never taken for whole, unless it is cut right
\* after a region; and a failing read of a region's data, though it is not
\* noticed (mem-restore.c:182), leaves the rest of the file misread and refused.
\* (With both, the misread rest may be missing.)
RestoredIsPrefix ==
  phase = "restored" /\ ~holed /\ (~cut \/ readErrors = 0) =>
    \E k \in 0 .. Len(Sizes) : \A r \in Regions :
      memory[r] = IF r <= k THEN Whole(DataOf(r)) ELSE Unmapped

\* When later writes succeeded (mem-ckpt.c:184-185), regions may be missing in
\* the middle, or hold what follows them in the file.  The restart still has
\* every region that was written before the first failure as it was saved.
KeptUpToFailure ==
  phase = "restored" /\ readErrors = 0 =>
    \A r \in Regions : DataOf(r) <= intact => memory[r] = Whole(DataOf(r))

\* Writing and reading an image come to an end.
ComesToAnEnd == <>[]Ended
=============================================================================
