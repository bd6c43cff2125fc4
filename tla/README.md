# A verification project for mpi-simgrid

TLA+ models, model-checked with TLC and in part proved with TLAPS, of the
checkpoint-restart prototype in `src/`. Every definition is translated from the
C source; `PROJECT.json` ("map") says which lines each one stands for.

## 1. The system

A rank is one process, or after a joint restart one thread of a process, with two
programs in it. The **upper half** is the MPI
application with its own ld.so, libc and `libuhwrappers.so`; it is what a
checkpoint saves. The **lower half** (`kernel-loader.exe`, or `simgrid.exe`
after a restart) is a static program with the MPI library; it loads the upper
half, makes mappings for it, and is thrown away at a restart.

| Component | State | Operations | Talks to |
|---|---|---|---|
| checkpoint (`mem-ckpt.c`) | `state`, the image file | `doCheckpoint`, SIGUSR2, both branches of `checkpointHandler` | wrappers (`reset_wrappers`), the lower half's list of mappings, the file |
| restore (`mem-restore.c`) | none | `restoreCheckpoint`: read back, map, `setcontext`, one thread per rank | the image, the table of mappings |
| upper-half wrappers (`upper-half-wrappers.c`, `upper-half-mpi-wrappers.*`) | `initialized`, `lhInfo`, pointers in statics | `sbrk`, `mmap`, every MPI call | `addr.bin`, the lower half |
| lower-half mmap (`mmap-wrapper.c`) | `mmaps`, `numRegions` | `mmapWrapper`, `getMmappedList` | the kernel |
| lower-half sbrk (`sbrk-wrapper.c`) | `__curbrk`, `__endOfHeap` | `sbrkWrapper` | `mmapWrapper` |
| lower-half MPI (`mpi-lh-if.c`, `lower-half-mpi.c`) | table of functions | `lhDlsym` | MPI |
| loader (`kernel-loader.c`) | `lhInfo`, `addr.bin` | `runRtld`, `confine_addr_space`, stack and heap of ld.so, `writeLhInfoToFile` | all of the above |
| ELF loading (`custom-loader.c`) | base address | `safeLoadLib` | `mmapWrapper` |
| trampolines (`trampoline_setup.c`) | patched code | `insertTrampoline`, symbol lookup | libc, ld.so |
| maps parser (`procmapsutils.c`) | none | `readMapsLine` | `/proc/self/maps` |
| transfers (`utils.c`) | none | `writeAll`, `readAll` | the kernel |

What is hard here: ranks that are processes at launch and threads of one process
after a restart, with one `addr.bin` and one table of mappings; machine code that is
made writable, patched and protected again in libraries of any layout; a signal
handler that may interrupt itself through a plain
call of the same function; a process that is in two places at once, in its
memory and in the image of that memory, and must tell which of the two it is;
files that outlive it (`addr.bin`, the image) and pointers in the image into a
program that does not; errors that are logged and dropped; and a choice of
memory by what the kernel shows, which is not what was mapped. `PROJECT.json`
("hazards") lists each at its line, with the properties about it.

## 2. The modules

    PageArith          page rounding, regionContains, doAreasOverlap
      SbrkWrapper      the break of the upper half
      UpperHalfMemory  which memory is saved, what a restart makes of it
    CheckpointStore    what a checkpoint promises (abstract)
      CkptRestart      the protocol of one rank; implements CheckpointStore
    ImageFile          the image file, byte transfers, torn images
    RankInfo           several ranks and their one addr.bin
    RankSpace          the address spaces of ranks, apart and brought together
    SymbolLookup       in which file a symbol is looked up
    StackCopy          the stack made for ld.so
      KernelLoader     the launch, from the environment to ld.so's first
                       instruction; uses PageArith, SymbolLookup, StackCopy
        LibcLoad       composes it with ld.so and the lower half's mmap: the
                       libc of the upper half is mapped and patched
    *Proofs            theorems about the module of that name (LoaderProofs:
                       KernelLoader and LibcLoad)
    MC*                instances for TLC

Where two modules show one piece of the code, each has what its properties need:
`addr.bin` is a file with an identity and readers in RankInfo and a value in
CkptRestart; the table of mappings is a list of ranges in UpperHalfMemory and of
pages, with threads racing for its index, in RankSpace; the heap is a range in
UpperHalfMemory, bytes in SbrkWrapper, and the place where it starts in
KernelLoader (`HeapAt` there is `Init` of SbrkWrapper).

Operators named `Mutant...` are deliberately wrong variants of the operator
that follows them, each the way a plausible mistake would have it. No module
uses them; putting one in place of its original must break the property that
`PROJECT.json` ("mutants") names, which shows that the property is about that
piece of code.

### CkptRestart

One rank and its two files. `lib` is the static data of `libuhwrappers.so`
(`state`, `initialized`, `lhInfo`, the cached mmap pointer) and the address that
libc's trampolines hold, `frames` the stack frames of `checkpointHandler`, one for
`doCheckpoint` and one for SIGUSR2, `img` the image, a sequence of blocks: the
context, then the library's data, the application's memory and its stack in the
order of their addresses (`Regions`, a parameter). A block is written where the
descriptor of its writer stands, so that two activations on the same file
overwrite, truncate and tear each other's blocks (`Put`), and a write that fails
leaves out a block or leaves a torn one.

The handler's steps are: open with O_TRUNC (`Open`); getcontext and the test of
the state (`TestState`, `ResumeAfterRestart`), and as a step of its own the change
of the state (`Mark`), so that SIGUSR2 may come between the two; one step per block
(`WriteBlock`, `WriteNowhere`, `WriteFails`, `SkipRegion`, `ListGone`), `Close`,
`Finish`; and for `doCheckpoint` the read and the reset of the state (`ReadState`,
`ReturnToApp`). A wrapper's steps are the three of `initialize_wrappers`
(`ReadInfo`, `UnlinkInfo`, `SetInitialized`), the jump (`Jump`) and the return. A
signal may come between any two. libc's own mmap and sbrk go through trampolines
past all that (`LibcCall`).

There is no check that an image is complete, in the code or in the model: a
restart comes up from what the file holds (`ComesUp`) if that begins with a
context, has no torn block before its end, and has the two regions without which
not one instruction runs, the library's and the stack. Without the application's
region the process comes up with its progress `LOST`, and ends when it touches it
(`WorkGone`). `RestoredFrame` has what a restart makes of the stack: the
activation that took the image is back in getcontext and takes the other branch;
one below it, which SIGUSR2 had interrupted, goes on where it was, also between the
test and the change of the state or in the middle of copying, but its descriptor
is gone and it writes nowhere. `Crash` may come at any step; only the two files
survive.

What is abstracted: the image's bytes (a block is whole, torn or missing;
ImageFile has the bytes), the regions' selection (UpperHalfMemory has it), MPI
arguments, the application except for its progress `work`. A lower half is its
build: equal builds have equal addresses (the repository disables address
randomisation). A call into a lower half that is not loaded ends the process.

### CheckpointStore

A process makes progress and may stop at any moment; it starts from the
beginning or with exactly the progress the checkpoint holds; stopping never
alters the checkpoint; a finished checkpoint holds the present, or, when memory is
missing in it, a process that makes no progress. CkptRestart
implements it with the image counted as a checkpoint as soon as and as long as a
process comes up from it, and a process counted as started from the beginning when its
constructors have run (`installed`): a restored process is one that `Recover`
explains, not one that `Start` would (`KeepsStorePromise`).

### SbrkWrapper

Bytes for the break, pages for memory. `mem` says of each page whether it is
free, the guard, fresh, written by the program, or somebody else's;
`programBrk` is the break as the program has it from sbrk's answers. One action
per way through `__sbrkWrapper`. The caller is malloc: it does not give back
more than it got (`Legal`). A restart loses the statics, the guard page, which
cannot be read and so is not saved, and any other pages (`Unsaved`): the image may
lack pages of the heap, as UpperHalfMemory shows. What sbrk has granted is claimed
to be mapped only until then.

### UpperHalfMemory

The address space by page, with owner and what `/proc/self/maps` shows of it.
A mapping is made in one step (`Maps`) and put into the table in another
(`RecordMapping`), so that a checkpoint by a signal may come between: the mapping is
then not saved, and the process restored from that image goes on to record what is
not there (`Resumes`, `late`). `Areas` are the maximal runs of equal attributes; `Matching`, `First` and `Part`
are the loop of `writeRelevantMemoryRegion`; `Restore` maps the saved areas as
anonymous memory and records them. The environment is what the upper half may
do to its memory: map memory or a file, lay segments over its own mapping (as
ld.so does), protect, unmap, move the break, grow the stack; the lower half may
map pages for itself. The kernel may keep two areas apart that the model
merges (unequal `anon_vma`); then more entries contain an area, which helps.
Lengths are whole pages: of a mapping whose length
is not (`__mmapWrapper` records it as given) the bytes behind it in its last page
are not saved (`mem-ckpt.c:146-157`), which the model does not show.
The segments of ld.so, recorded before the stack and the heap, are left out:
they are one more mapping of a file. sbrk moves by whole pages here.

### ImageFile

The file as a sequence of cells, each named by the block it was written for and
its place in it, so that a reader that is out of step gets what it would get.
`Write`, `Read` transfer any part of what is asked; `WriteInterrupted` and
`ReadInterrupted` are EINTR and EAGAIN; `WriteFails` is any other error, after
which the writer goes on with the next block, which may fail again (a full disk)
or succeed (an error that passes): `cut` says that a write has failed or the
writer has died, `holed` that something was written after that, `intact` what was
written before. `ReadFails`, `HeaderHalfRead`, `DataReadFails` are failing reads by
what the
code makes of them. A header that is not one is refused, at the latest when its
data are missing: a page of application memory that looks like a header of a
free range with as much data as happen to follow is left out.

### RankInfo

Processes started for one rank, or for several ranks by a restart, in one
directory. A file has an identity of its own (the process that created it), and
`name` says which file is called `addr.bin`: opening without O_TRUNC keeps a file
that is there (`OpenToWrite`), a file that was unlinked is still read by who has
it open (`Read`), and `Unlink` takes away whatever has the name then. `exit` in
one thread (`NoFile`, `TooShort`) ends all ranks of its process. A write of
`lhInfo` is one step: it is 40 bytes. `rivals` records, for the properties, which
ranks were starting at the same time.

### RankSpace

Ranks in windows of their own (`Window`, `Booked` from `confine_addr_space`);
their checkpoints, by file name; a restart of any set of files into one process
that has booked nothing; there a table of mappings for all, with the load and the
store of `numRegions` as steps of their own. The kernel places a mapping as high
as it can. A mapping is one page: that areas merge is in UpperHalfMemory.
`FirstDigit` names the file.

### KernelLoader, StackCopy, SymbolLookup

Memory is a function of the address, by the byte, with permissions. `LoadSegment`
is one call of `map_elf_interpreter_load_segment`, with its two statics
(`firstTime`, `base`) and both of its mappings failing or not; `Continues` is the
loop around it, which ignores failures but the first. `LookUp` has every result
of the two lookups, among them those of a symbol table that was never set.
`createNewStackForRtld`, `createNewHeapForRtld` and `insertTrampoline` are the
functions of that name; each has the branch that returns -1. Without a `/proc` that
can be read (`procfs`) nobody notices that the old stack was not found, and
`createNewStackForRtld` ends in a refused mmap or in a fault; whether the heap got
its guard page (`guarded`) nobody looks at either. `EnterLdSo` is the
jump. A pointer takes one address in StackCopy, and a string is its variable's
name; what can be told apart of a string is whether UH_PRELOAD occurs in it.
`IsStack` is what execve guarantees: every pointer is to a string of its own. Of
the auxiliary vector `patchAuxv` changes three entries and leaves the pointers
into the old stack (`StackPointers`) as they are.
`IsLdSo` is what linkers guarantee of a shared object; an ld.so that breaks it
(a first segment not at 0 or with a bss, `custom-loader.c:266`) is left out.

### LibcLoad

After the jump ld.so maps a library: first the whole of it with the permissions of
its first segment, then each further segment over that. The call goes
through the patched mmap into `__mmapWrapper`, which patches a mapping to be
executed of a file called `libc-...` (`Seen`, `LookUpLibc`, `PatchLibc`). The
library may have its code first or later, and have a symbol table, a debug file or
neither. A trampoline goes where the distance from the mapping leads (`Target`), in
the library or outside it; each of its two calls of mprotect may fail before it has
changed anything or half way (`Begun`), and the result is ignored. That ld.so maps libraries in this order is the external part.

## 3. What the runs check

Passing runs:

| Run | Bounds | States | Shows |
|---|---|---|---|
| `ckpt_full` | 2 builds, signals anywhere, 2 calls, 2 signals, 1 failing system call, 3 lives | 929,387 | `MarkedImage`, `RestoredTakesNoCheckpoint`, `HandlerEnds`, `KeepsStorePromise` with signals between any two steps of the handler and of a wrapper |
| `ckpt_calls` | 2 builds, 3 calls, 2 uses of mmap or of libc's own, 3 lives | 169,764 | `WrappersUsable`, `AnswerMatchesCause`, `ReportedImageHoldsWork` when only the application asks for checkpoints |
| `sbrk` | page of 4 bytes, moves of 1, 4, 7 bytes both ways, a mapping above the reservation, 1 restart that loses any pages | 33,004 | `GrantedIsMapped`, `LiveSurvives`, `GrantedIsZero`, `LostBreakStays` |
| `memory` | 9 pages, table of 5, 3 changes, 1 munmap, 1 page of the lower half's own, 2 builds, 1 restart, checkpoints also between a mapping and its recording | 1,166,252 | `NoLowerSaved`, `UnmergedIsSaved`, `ImageFits` |
| `image` | 3 regions of 2, 1, 3 cells, 2 interruptions, 2 failing reads, any writes failing, death anywhere | 270,231 | `WholeComesBack`, `RestoredIsPrefix`, `KeptUpToFailure`, `ComesToAnEnd` |
| `ranks_info` | 2 ranks, 2 binaries, 4 processes | 823,253 | `LoneRankLives`, `InfoFits`, `FirstGetsIn` |
| `ranks_space` | 2 ranks, 3 mappings of theirs, 1 of the lower half's, table of 4, 2 restarts | 115,771 | `FirstRestartFits`, `OwnIsListed` |
| `loader` | pages of 4 bytes, 8 ld.so files, 7 libraries, 5 environments; mappings, protections (also half way) and reads of /proc that fail | 529,175 | `LdSoKept`, `HeapKept`, `SeesTheProgram`, `DiesOnlyUnprepared`, `LibraryRight`, `LibcDiesOnlyStripped` |

Every run checks the module's `TypeOK` too, except that `ckpt_calls` leaves it to
`ckpt_full`.

Two calls or signals are what an overlap needs, three lives a checkpoint of a
restored process and its restart; two builds tell a stale address from a good
one. One region of one cell, one longer than a header and one as long as a
header are the ways a reader can be out of step. A move of 7 bytes on pages of
4 crosses one or two page boundaries. Three changes of memory are a mapping,
something laid over it or next to it, and a change of protection; a table of 5
is full after the stack, the heap and three of them. Four processes are two that
leave something behind and two that race. Three mappings of two ranks are one each
before a restart and one after; two restarts are the joint one and the one of
what was saved after it. The eight ld.so files have their code first or second,
a bss that ends in its page, at its end or pages later, no data at all, a symbol that is
missing, and each state of the symbol table and the debug link; a function's
first bytes cross a page in some.

What the passing runs leave out, because the property does not hold there:

* the properties of `ckpt_calls` are about an application that asks for
  checkpoints after its first MPI call, without SIGUSR2 and without failing
  writes. A signal inside `initialize_wrappers` breaks `WrappersUsable`: the process
  restored from its checkpoint goes on to set the flag that the restart has reset;
* a restored process keeps calling into the lower half it was launched by, through
  two statics and through libc's trampolines (see the table of other divergences).
  With one build that is harmless, and with another it ends the process; no
  property claims anything of it;
* `GrantedIsMapped` ends with the first restart, which loses pages;
* `NoLowerSaved` is about processes in which entries of what is not mapped (left by
  munmap, or recorded by a process that came back inside mmap) and the lower half's
  own mappings do not meet (`Apart`): such an entry stands for the page that the
  lower half then takes;
* `UnmergedIsSaved` is about processes without such entries, as one of them stands
  for a part of a later, larger mapping; and it says nothing of a mapping that is
  not recorded yet, or no longer listed;
* `ImageFits` holds also since three changes cannot bring the heap to the lower
  half's pages; the proof needs `HeapHasRoom` for it;
* `RestoredIsPrefix` is about images to which nothing was written after a failed
  write (of others `KeptUpToFailure` says what is still as it was), and about restarts of cut images and restarts with failing
  reads, not about both in one (a header that is cut, a read that fails, and the
  end of the file); `WholeComesBack` is about neither;
* `InfoFits` and `FirstGetsIn` are about processes that start while no other of
  the directory does: of two that start at once the one reads the other's file;
* `OwnIsListed` leaves out processes in which two ranks have been in mmap at once,
  and tables that wrap (in UpperHalfMemory they do);
* `LdSoKept` leaves out segments whose mapping failed, and `HeapKept` ld.so files of
  which one did; both are about libraries with `Confined`, in which the distance of
  mmap and sbrk from every segment to execute stays within the library (of the
  libraries of the run one is not so, and breaks both); `LibraryRight` leaves out
  libraries that have code elsewhere than in the first segment;
* `SeesTheProgram` is about the pointers of argv and of the environment, not about
  those of the auxiliary vector.

Runs that end in a violation are disagreements of the code with what the
repository says of it; `PROJECT.json` ("findings") quotes the line and says what
happens:

| Run | Property | In short |
|---|---|---|
| `ckpt_answer` | `AnswerMatchesCause` | after the restart of a signal's checkpoint, doCheckpoint empties the image and claims a restart |
| `memory_merge` | `TrackedIsSaved` | the kernel shows adjacent mappings as one area, one is saved |
| `ranks_exit` | `RestoredRanksLive` | ranks restored together: the second finds no addr.bin and its exit ends all |
| `ranks_again` | `RestartsFit` | images taken after a joint restart hold every rank's memory and do not fit together |

Other divergences met while modelling. The models contain the behaviour where
one is named (the action leads to it); no listed run is about it:

| Where | What happens | In the model |
|---|---|---|
| `mem-ckpt.c:97-99` | SIGUSR2 between the test of the state and its change takes a checkpoint; after its restart the interrupted doCheckpoint goes on to copy memory, to a descriptor that is not open, and answers POST_RESUME | `TestState`, `Mark`, `WriteNowhere` |
| `mem-ckpt.c:85` | SIGUSR2 inside doCheckpoint truncates the image under it, and doCheckpoint answers POST_RESUME | `Signal`, `Open` |
| `mem-ckpt.c:103,124,183-186` | a failed write is logged or dropped, and doCheckpoint answers POST_RESUME | `WriteFails` |
| `mem-ckpt.c:184-186` | when only one of a header and its data is written, what follows in the file is restored as another region's data, or the image is refused | `WriteFails` of ImageFile |
| `mem-restore.c:80-134` | an image cut after a region is restored as if it were whole; without the application's memory the process faults | `ComesUp`, `WorkGone` |
| `mem-ckpt.c:141` | doCheckpoint before the first wrapper call saves the context only, and answers POST_RESUME | `SkipRegion` |
| `mem-ckpt.c:143` | doCheckpoint right after a restart asks the old lower half for the list of mappings | `ListGone` |
| `mem-ckpt.c:151` | once sbrk has grown the heap past its reservation, only the pages of a growth are saved | `SbrkMaps`, `Part` |
| `mmap-wrapper.c:82-86` | a signal between a mapping and its recording takes a checkpoint without the mapping, and the restored process records what is not there | `Maps`, `RecordMapping` |
| `mem-ckpt.c:146-157` | of a mapping whose length is no multiple of a page the bytes behind it in its last page are not saved | no |
| `mem-ckpt.c:57` | ranks 1 and 10 write the same image | `FileOf` |
| `upper-half-wrappers.c:33,47` | the wrappers of mmap and sbrk keep the old lower half's address through a restart, since reset_wrappers does not clear their statics | `Jump`, `LowerGone` |
| `mmap-wrapper.c:67-68` | so do the trampolines in libc, and those in ld.so (`kernel-loader.c:109-113`): they hold absolute addresses of the lower half that launched the program, and after a restart under another build malloc jumps to where that had its functions | `LibcCall`, `LowerGone` |
| `upper-half-wrappers.c:59,85` | a signal between the unlink and `initialized = 1` takes a checkpoint after whose restart the wrappers count as initialised and hold the old lower half | `SetInitialized` |
| `upper-half-wrappers.c:85` | of two processes that start in one directory one reads the other's addresses, or finds none | `Unlink`, `NoFile` |
| `mmap-wrapper.c:84-86` | two threads in mmap: an entry or a number is lost | `StoreNum` |
| `mmap-wrapper.c:86` | a table that wraps reports no entries, and a checkpoint then saves no memory | `NextIndex`, `Listed` |
| `mmap-wrapper.c:92` | the mapping to be executed is taken for the start of libc: in a libc whose code is not its first segment other bytes are overwritten, its mmap and sbrk are not; nothing looks whether they are the library's, so that they may be ld.so's or the heap's | `Target`, `PatchLibc` |
| `mmap-wrapper.c:67-68` | a failed trampoline in libc is not noticed | `PatchLibc` |
| `mmap-wrapper.c:90` | a libc whose path has no `libc-` in it (libc.so.6) is not patched | `Seen` |
| `sbrk-wrapper.c:70` | growth past the reservation replaces a neighbouring mapping instead of failing | `SbrkGrows` |
| `sbrk-wrapper.c:48` | after a restart sbrk(0) answers NULL, and every growth fails, as nothing can be mapped at NULL | `SbrkQuery`, `Mappable` |
| `kernel-loader.c:69` | without RANK_ID, as in `Makefile.ubuntu:25` and the usage text, the loader crashes | `Start` |
| `kernel-loader.c:181-189` | without a readable `/proc/self/stat` the end of the stack is NULL, and copying it faults | `createNewStackForRtld` |
| `kernel-loader.c:449` | the result of mprotect is not looked at: ld.so may start with a heap that has no guard page | `createNewHeapForRtld` |
| `kernel-loader.c:495` | lhFsAddr is the TLS base of the lower half's main thread; ranks restored together all switch to it | no |
| `kernel-loader.c:351` | another variable in which UH_PRELOAD occurs is renamed in its place | `Preload` |
| `kernel-loader.c:226-243` | AT_RANDOM, AT_EXECFN and AT_PLATFORM still point into the old stack, although lines 246-248 speak of a deep copy | `patchAuxv` |
| `kernel-loader.c:389` | pages the stack grows by are in no entry and are not saved | `StackGrows` |
| `custom-loader.c:148` | a segment that could not be mapped, but the first, is ignored | `Continues` |
| `custom-loader.c:225` | a segment without bytes in the file is mapped with length 0, which fails, and so has no bss | `LoadSegment` |
| `custom-loader.c:266` | with a bss in the first segment the base address would be the bss's | `LoadSegment` |
| `trampoline_setup.c:185` | without table and debug link the caller gets a file and no table, while lines 120-121 promise -1 | `Unset` |
| `trampoline_setup.c:144` | a debug file that is not there ends the loader by an assertion | `Dies` |
| `mem-restore.c:149` | a descriptor is left open when an overlap is found | no |
| `mem-restore.c:173` | areas come back without a file and without the flag of a stack, merge, and the next checkpoint saves one part | `Restore`, `Part` |
| `mem-restore.c:182` | readAll's -1 is compared with a size_t: a failed read of data is taken for a success | `DataReadFails` |

Deadlock checking is off where the system may stop for good: a rank whose lives
are used up, a restart that has ended, an environment whose bounds are reached.

### Fairness

`CkptRestart!FairSpec` has weak fairness of `ThreadStep`: the rank's thread is
scheduled and its system calls return, which is all the handler waits for.
Requests, deaths and launches are not fair. `ImageFile!Spec` has weak fairness of
the writer's and of the reader's loop for the same reason; interruptions are
bounded, as `writeAll` would spin for ever on a call that is interrupted for
ever.

## 4. What is proved

For all values of the constants, from the named assumptions of the modules:

* `CkptRestartProofs`: `TypeCorrect`, `ImageIsMarked`, `RestoredNeverCopies`.
  Neither `MarkedImage` nor `RestoredTakesNoCheckpoint` is inductive. The
  invariant `IInv` adds why the copy is always made in the state POST_RESTART: an
  activation that is copying has set it, and only the end of a copy, of one that
  nothing has interrupted, sets it back; the same of the frames on a saved stack,
  so that a restored process starts in that state (`RestoredIsMarked`) and the
  activation it comes back through takes the other branch. One below it may be past
  the test and goes on to copy; it never reaches the image because its descriptor
  did not come back. That is why the property speaks of the descriptor.
* `PageArithProofs`: `OverlapMeaning` and the lemmas on rounding, from what
  division means.
* `SbrkProofs`: `TypeCorrect`, `Granted`, `NothingLost`, `NewIsZero`,
  `LostStaysLost`. The
  inductive invariant says that, unless a restart has lost both, the lower
  half's break is the program's and the end of the heap is the end of a page at
  or above it (`BreakKnown`), and that all pages below the end are mapped, and
  fresh above the break (`EndIsMapped`), as long as there was no restart.
* `UpperHalfProofs`: `TypeCorrect`, `SavesOnlyUpper`, `SavesWholeAreas`,
  `ImageAlwaysFits`. The invariant of the first two (`EntriesOwned`) is about the
  whole table and not its listed part, and about the mapping that is not recorded
  yet: every page of them is the upper half's or, with munmap or a late recording,
  nobody's. What is written is in an area, hence mapped,
  and in an entry. `SavesWholeAreas` needs the order of the table (`Nested`): an
  entry that covers an earlier one lies in one that is earlier still, so the first
  entry an area meets is around it. `ImageAlwaysFits` assumes `HeapHasRoom`: no
  build has a page where the heap may grow to; the invariant is that no entry is
  ever in the lower half's pages.
* `CkptRestartProofs`, further down: `WrappersStayUsable`, `AnswersRightly`,
  `ReportedImagesAreWhole`, for environments without signals and
  faults (`Calm`), in any number of lives and under any builds. The invariant
  (`CInv`) says where the lower half in `lhInfo` is the one that is loaded
  (`Agreement`), also in the image, and what state doCheckpoint will read; that the
  file has the blocks in their order (`InOrder`) makes a reported image whole.
  At the end of the module `Refinement`, `Spec => KeepsStorePromise`: every step
  maps to one step of CheckpointStore or to none; it rests on `IInv` for the steps
  that write blocks.
* `RankInfoProofs`: `TypeCorrect`, `LoneRanksLive`, `InfoAlwaysFits`,
  `FirstAlwaysGetsIn`. For ranks that no other process disturbs the invariant says
  what the file called addr.bin is at each stage of their start: there and theirs
  to fill, filled with their build, or gone because one of them has got in
  (`Found`).
* `RankSpaceProofs`: `TypeCorrect`, `FirstRestartsFit`, `TablesAreRight`, for
  any number of ranks. What a launched rank maps, lists and
  saves is in its window (`InWindow`, `ImagesNamed`); windows are apart, and free
  in a process that has just started; in a restart a page is as it was then or of
  an image that is loaded (`Loaded`). The table lists what the map has, but for
  the page of the one call in progress (`Tabled`), and loading keeps it so since
  no two pages of an image get the same entry (`Places`). That the pages of
  several images have room in the table follows from counting all pages that
  anything still speaks of (`EverCounted`): images that fit have none in common.
  All of it assumes that fewer regions are mapped in all than the table has entries (`MaxMaps`):
  what a full table loses is in UpperHalfMemory.
* `ImageFileProofs`: `TypeCorrect`, `ComesBackWhole`, `RestoresPrefix`, for any
  sizes and numbers of regions. Where a block is in the file is a sum over the
  blocks before it, of which nothing can be proved without induction over data;
  the invariant does without. Of the file it says that each cell determines the
  next one (`InOrder`) and of the writer that the last cell is the one before its
  own (`AtWriter`). The reader knows what it reads by the cell after its position:
  a header follows the regions that are restored (`AtHeader`), the region it
  names follows the header (`AtData`), what is in its buffer are the cells before
  (`Buffered`), and after a failing read it is at a cell that is neither
  (`LostAtHeader`, `LostAtData`), from where it cannot reach the end unrefused
  unless the image was cut.
* `LoaderProofs`, of KernelLoader: `TypeCorrect`, `LoadsRight`, `HeapStaysReady`,
  `ProgramIsSeen`, `DiesForAReason`. `LoadSegment` needs that the pages of a
  segment, of its bss and of the segments before are apart (from `IsLdSo`), stack
  and heap that they are mapped where nothing is, and the trampolines that the
  bytes they write are code and that the protection of their pages comes back to
  what it was, as no other segment shares these pages.
  For the heap the invariant grows (`HInv`): from its making on no page of it is
  one that a trampoline opens. That holds because every page whose protection
  changes has a byte of the jump, so of a segment (`JumpInPage`), and because the
  heap is whole pages (`HeapAssumption`; 100 in the code) where nothing was.
  The stack is a lemma about `deepCopyStack` (`TextCopied`): every pointer moves
  by the same distance, the strings with them, and `Preload` changes one string
  that nothing else points to. The invariant (`StackMade`) only says that the new
  stack is the copy of the old one, and that TARGET_LD was set.
* `LoaderProofs`, of LibcLoad: `LibcTypeCorrect`, `LdSoIsKept`, `HeapIsKept`,
  `DiesForStripped`: a library is mapped beside ld.so and heap (`Where`), and as long
  as it is `Confined` the bytes and pages that patchLibc touches stay within it,
  also when an mprotect fails half way. `LibraryStaysRight` adds what the cells of
  the library are (`CodeInv`): where the code comes first, and only there, it is the
  mapping that patchLibc looks at, its functions lie in it (`CodeFacts`) and apart
  (`OfApart`), each is written to once (`Once`), and later segments begin on later
  pages.

Only model-checked: `HandlerEnds` and `ComesToAnEnd`, since liveness is out of the
prover's reach, and `KeptUpToFailure`.

## 5. Not modelled

* What MPI does, and its arguments: the wrappers pass them on.
* The scan of a line of `/proc/self/maps` (`procmapsutils.c`), character by
  character: it keeps no state and the kernel prints in a fixed format.
  UpperHalfMemory has what the lines say.
* The sections of an ELF file as bytes: SymbolLookup has what they hold. The CRC
  of a debug link is not checked by the code either.
* File descriptors and `malloc` in the loader; the build files; what
  threads do to one another in the data of the lower half: after a joint restart
  all ranks that are in it at once use the one TLS block of its main thread
  (`kernel-loader.c:495`, `common.h:94-108`), and what is in that block is the
  business of its libc and MPI library. CkptRestart has the switch of one rank
  (`Enter`, `LowerReturn`).

What a continuation could take up: lengths in bytes in UpperHalfMemory;
CkptRestart with UpperHalfMemory's choice of regions in place of its three blocks;
a proof of `KeptUpToFailure`.
