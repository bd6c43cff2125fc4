---------------------------- MODULE CkptRestart ----------------------------
(***************************************************************************)
(* The checkpoint/restart protocol of one MPI rank.                        *)
(*                                                                         *)
(* The upper half (application, libc, libuhwrappers.so) is what a          *)
(* checkpoint saves.  The lower half (kernel-loader.exe or simgrid.exe) is *)
(* thrown away at a restart and replaced by a new one, perhaps of another  *)
(* build, whose entry points the upper half learns from ./addr.bin.        *)
(* A checkpoint is taken by the application (doCheckpoint) or by SIGUSR2;  *)
(* both run checkpointHandler, and the signal may interrupt the call.      *)
(*                                                                         *)
(* The image is a file of blocks: the context (where and with which TLS    *)
(* base to resume), then what /proc/self/maps lists of the upper half, in  *)
(* its order: the data of libuhwrappers.so, the application's memory and   *)
(* its stack.  A block's bytes are abstracted to the state they hold, and  *)
(* its length to one place in the file; the position of a write is not     *)
(* abstracted, since two handlers may write through two descriptors of the *)
(* same file, and since a write that fails leaves the position behind.     *)
(***************************************************************************)
EXTENDS Naturals, Sequences

CONSTANTS
  LowerHalves,      \* builds of the lower half; equal builds, equal addresses
  NULL,             \* a null pointer, a missing file, no call in progress
  LOST,             \* the progress of a process without the memory it is in
  Regions,          \* the upper half's regions, in the order of their addresses
  SignalContexts,   \* what SIGUSR2 may interrupt
  EarlyRequests,    \* may a checkpoint be asked for before any wrapper ran?
  Budget            \* how often each bounded event may happen

Sources == {"call", "signal"}                  \* who runs checkpointHandler
Contexts == {"app", "wrapper", "lower", "handler"}
Events == {"work", "call", "signal", "mmap", "fault", "run"}
States == {"RUNNING", "POST_RESUME", "POST_RESTART"}
RegionNames == {"lib", "app", "stack"}

\* The image in the order in which it is written.
Slots == [i \in 1 .. 4 |-> IF i = 1 THEN "ctx" ELSE Regions[i - 1]]

ASSUME LowerHalvesAssumption == NULL \notin LowerHalves
ASSUME NullAssumption == NULL \notin Nat /\ LOST \notin Nat /\ LOST # NULL
ASSUME RegionsAssumption ==
  /\ Regions \in [1 .. 3 -> RegionNames]
  /\ \A i, j \in 1 .. 3 : Regions[i] = Regions[j] => i = j
ASSUME SignalAssumption == SignalContexts \subseteq Contexts
ASSUME EarlyAssumption == EarlyRequests \in BOOLEAN
ASSUME BudgetAssumption == Budget \in [Events -> Nat]

VARIABLES
  alive,      \* is the rank's process running?
  lh,         \* the lower half loaded in it
  installed,  \* is checkpointHandler the action of SIGUSR2?
  addrBin,    \* the lower half described by ./addr.bin, or NULL: no file
  img,        \* the image file: its blocks
  lib,        \* static data of libuhwrappers.so, and libc's trampolines
  work,       \* the application's own progress
  fs,         \* the fs register: "upper" or the TLS of a lower half
  inCall,     \* the wrapper in progress, or NULL
  frames,     \* the activation of checkpointHandler per source
  answer,     \* what the last doCheckpoint returned, or NULL
  used        \* how often each bounded event has happened

process == <<alive, lh, installed>>
files == <<addrBin, img>>
app == <<work, fs, inCall, answer>>
vars == <<process, files, lib, app, frames, used>>
-----------------------------------------------------------------------------
(* State.                                                                  *)

\* lhInfo is what ./addr.bin said, mmapPtr the static in the wrapper of mmap
\* (sbrk's is like it), jump the address in the trampolines of libc.
NewLib == [state |-> "RUNNING", initialized |-> FALSE,
           lhInfo |-> NULL, mmapPtr |-> NULL, jump |-> NULL]
Libs == [state : States, initialized : BOOLEAN,
         lhInfo : LowerHalves \cup {NULL}, mmapPtr : LowerHalves \cup {NULL},
         jump : LowerHalves \cup {NULL}]

\* pos is where in the file its descriptor stands, fd whether that is open;
\* resumed says how the activation came back from an image: "ctx" through the
\* saved context, "below" as one that context's activation had interrupted.
PCs == {"idle", "open", "opened", "mark", "save", "finish", "return", "reset"}
NoFrame == [pc |-> "idle", next |-> 1, pos |-> 1, fd |-> FALSE,
            temp |-> NULL, resumed |-> "no"]
Frames == [pc : PCs, next : 1 .. 5, pos : Nat \ {0}, fd : BOOLEAN,
           temp : States \cup {NULL}, resumed : {"no", "ctx", "below"}]
NoFrames == [s \in Sources |-> NoFrame]

\* at is how far a wrapper is: "read", "unlink" and "set" in
\* initialize_wrappers, "jump" past it, "lower" in the lower half.
Calls == [kind : {"mpi", "mmap", "libc"},
          at : {"read", "unlink", "set", "jump", "lower"},
          to : LowerHalves \cup {NULL}]

ASSUME CallAssumption == NULL \notin Calls

CtxBlocks == [slot : {"ctx"}, via : Sources, fs : LowerHalves \cup {"upper"}]
LibBlocks == [slot : {"lib"}, data : Libs]
AppBlocks == [slot : {"app"}, work : Nat]
StackBlocks == [slot : {"stack"}, inCall : Calls \cup {NULL},
                frames : [Sources -> Frames]]
\* Bytes that no reader makes sense of: the zeroes of a hole in the file, a
\* block that was not written to its end, the rest of one half overwritten.
Torn == [slot |-> "torn"]
Blocks == CtxBlocks \cup LibBlocks \cup AppBlocks \cup StackBlocks \cup {Torn}

Init ==
  /\ alive = FALSE
  /\ lh = NULL
  /\ installed = FALSE
  /\ addrBin = NULL
  /\ img = <<>>
  /\ lib = NewLib
  /\ work = 0
  /\ fs = "upper"
  /\ inCall = NULL
  /\ frames = NoFrames
  /\ answer = NULL
  /\ used = [e \in Events |-> 0]

\* One more of a bounded event.
Spend(e) ==
  /\ used[e] < Budget[e]
  /\ used' = [used EXCEPT ![e] = @ + 1]

\* The process ends, whatever the reason; only the two files survive it.
Dies ==
  /\ alive' = FALSE
  /\ lh' = NULL
  /\ installed' = FALSE
  /\ lib' = NewLib
  /\ work' = 0
  /\ fs' = "upper"
  /\ inCall' = NULL
  /\ frames' = NoFrames
  /\ answer' = NULL
  /\ UNCHANGED files

Idle(s) == frames[s].pc = "idle"
At(s, pc) == frames[s].pc = pc
Goto(s, pc) == frames' = [frames EXCEPT ![s].pc = pc]

\* The application's own code is on the processor.
AppRuns == alive /\ inCall = NULL /\ \A s \in Sources : Idle(s)

\* Source s's activation of the handler is on the processor: a signal's
\* activation suspends the call's.
Runs(s) == alive /\ ~Idle(s) /\ (s = "call" => Idle("signal"))

\* A wrapper, or the lower half on its behalf, is on the processor.
InWrapper(at) == alive /\ Idle("signal") /\ inCall # NULL /\ inCall.at = at
-----------------------------------------------------------------------------
(* The application and its calls into the lower half.                      *)

Work ==
  /\ AppRuns
  /\ work # LOST
  /\ Spend("work")
  /\ work' = work + 1
  /\ UNCHANGED <<process, files, lib, fs, inCall, frames, answer>>

\* A process that came back without its memory faults when it touches it.
WorkGone ==
  /\ AppRuns
  /\ work = LOST
  /\ Dies
  /\ UNCHANGED used

\* A wrapper tests `initialized` first.
Enter(kind) ==
  /\ AppRuns
  /\ inCall' = [kind |-> kind, to |-> NULL,
                at |-> IF lib.initialized THEN "jump" ELSE "read"]
  /\ UNCHANGED <<process, files, lib, work, fs, frames, answer>>

MpiCall == Enter("mpi") /\ UNCHANGED used
MmapCall == Enter("mmap") /\ Spend("mmap")

\* initialize_wrappers: what ./addr.bin says is copied, the file unlinked and
\* only then `initialized` set.
GoOn(at) == inCall' = [inCall EXCEPT !.at = at]

\* Mutant: readLhInfoAddr does not notice that the file is missing.
MutantAlwaysThere == TRUE

InfoThere == addrBin # NULL

ReadInfo ==
  /\ InWrapper("read")
  /\ InfoThere
  /\ lib' = [lib EXCEPT !.lhInfo = addrBin]
  /\ GoOn("unlink")
  /\ UNCHANGED <<process, files, work, fs, frames, answer, used>>

\* A wrapper that has to initialise and finds no ./addr.bin exits.
ExitNoAddrBin ==
  /\ InWrapper("read")
  /\ ~InfoThere
  /\ Dies
  /\ UNCHANGED used

UnlinkInfo ==
  /\ InWrapper("unlink")
  /\ addrBin' = NULL
  /\ GoOn("set")
  /\ UNCHANGED <<process, img, lib, work, fs, frames, answer, used>>

SetInitialized ==
  /\ InWrapper("set")
  /\ lib' = [lib EXCEPT !.initialized = TRUE]
  /\ GoOn("jump")
  /\ UNCHANGED <<process, files, work, fs, frames, answer, used>>

\* The TLS base in the lower half: an MPI wrapper switches before it jumps;
\* those of mmap and sbrk leave it to the lower half, if there is one.
FsIn(kind, to) ==
  IF to # NULL /\ (kind = "mpi" \/ to = lh) THEN to ELSE fs

Lower(kind, to) ==
  /\ inCall' = [kind |-> kind, at |-> "lower", to |-> to]
  /\ fs' = FsIn(kind, to)
  /\ UNCHANGED <<process, files, work, frames, answer>>

\* The wrappers of MPI look the entry point up in lhInfo at every call, those
\* of mmap and sbrk keep the first pointer they saw in a static.
Jump ==
  /\ InWrapper("jump")
  /\ lib' = IF inCall.kind = "mmap" /\ lib.mmapPtr = NULL
            THEN [lib EXCEPT !.mmapPtr = lib.lhInfo] ELSE lib
  /\ Lower(inCall.kind,
           IF inCall.kind = "mmap" THEN lib'.mmapPtr ELSE lib.lhInfo)
  /\ UNCHANGED used

\* libc's own mmap and sbrk (malloc's, say) are trampolines, which hold the
\* address of the wrapper in the lower half that launched the program.
LibcCall ==
  /\ AppRuns
  /\ Spend("mmap")
  /\ Lower("libc", lib.jump)
  /\ UNCHANGED lib

\* The lower half returns, and its caller's TLS base comes back.
LowerReturn ==
  /\ InWrapper("lower")
  /\ inCall.to = lh
  /\ inCall' = NULL
  /\ fs' = "upper"
  /\ UNCHANGED <<process, files, lib, work, frames, answer, used>>

\* A jump to, or a return into, a lower half that is not there.
LowerGone ==
  /\ InWrapper("lower")
  /\ inCall.to # lh
  /\ Dies
  /\ UNCHANGED used
-----------------------------------------------------------------------------
(* Checkpoint requests.                                                    *)

NewFrame == [NoFrame EXCEPT !.pc = "open"]
Requestable == EarlyRequests \/ lib.lhInfo # NULL

DoCheckpoint ==
  /\ AppRuns
  /\ Requestable
  /\ Spend("call")
  /\ frames' = [frames EXCEPT !["call"] = NewFrame]
  /\ answer' = NULL
  /\ UNCHANGED <<process, files, lib, work, fs, inCall>>

InterruptedContext ==
  IF inCall # NULL
  THEN IF inCall.at = "lower" THEN "lower" ELSE "wrapper"
  ELSE IF ~Idle("call") THEN "handler" ELSE "app"

\* SIGUSR2 is delivered.  The kernel masks it while its own handler runs.
Signal ==
  /\ alive /\ Idle("signal")
  /\ InterruptedContext \in SignalContexts
  /\ Requestable
  /\ installed
  /\ Spend("signal")
  /\ frames' = [frames EXCEPT !["signal"] = NewFrame]
  /\ UNCHANGED <<process, files, lib, app>>

\* A restored process never installed the handler: SIGUSR2 kills it.
SignalKills ==
  /\ alive /\ Idle("signal")
  /\ InterruptedContext \in SignalContexts
  /\ ~installed
  /\ Spend("signal")
  /\ Dies
-----------------------------------------------------------------------------
(* checkpointHandler.                                                      *)

\* open with O_TRUNC: the previous image is gone from here on.
Open(s) ==
  /\ Runs(s) /\ At(s, "open")
  /\ img' = <<>>
  /\ frames' = [frames EXCEPT ![s].pc = "opened", ![s].fd = TRUE]
  /\ UNCHANGED <<process, addrBin, lib, app, used>>

\* open fails, or getcontext does: the handler returns with `state` as it was.
OpenFails(s) ==
  /\ Runs(s) /\ At(s, "open")
  /\ Spend("fault")
  /\ Goto(s, "return")
  /\ UNCHANGED <<process, files, lib, app>>

ContextFails(s) ==
  /\ Runs(s) /\ At(s, "opened")
  /\ frames[s].resumed # "ctx"
  /\ Spend("fault")
  /\ Goto(s, "return")
  /\ UNCHANGED <<process, files, lib, app>>

\* getcontext has returned, for the first time if the state says so.
FirstReturn == lib.state # "POST_RESTART"

TestState(s) ==
  /\ Runs(s) /\ At(s, "opened")
  /\ FirstReturn
  /\ Goto(s, "mark")
  /\ UNCHANGED <<process, files, lib, app, used>>

\* Mutant: memory is copied before the state is changed.
MutantUnmarkedLib == lib

\* The state once it says that what is read from an image is a restart.
MarkedLib == [lib EXCEPT !.state = "POST_RESTART"]

\* The state is changed before memory is copied, so that the copy knows that
\* it is one.
Mark(s) ==
  /\ Runs(s) /\ At(s, "mark")
  /\ lib' = MarkedLib
  /\ Goto(s, "save")
  /\ UNCHANGED <<process, files, app, used>>

\* Mutant: reset_wrappers does not reset.
MutantKeptLib == lib

\* reset_wrappers: ./addr.bin is to be read again.
ResetLib == [lib EXCEPT !.initialized = FALSE]

\* getcontext has returned into a restored process (or so the state says).
ResumeAfterRestart(s) ==
  /\ Runs(s) /\ At(s, "opened")
  /\ ~FirstReturn
  /\ lib' = ResetLib
  /\ Goto(s, "return")
  /\ UNCHANGED <<process, files, app, used>>

Saving(s) == Runs(s) /\ At(s, "save") /\ frames[s].next <= 4
Slot(s) == Slots[frames[s].next]

\* Mutant: the loop over the regions never gets to the next one.
MutantNoAdvance(s, n) == UNCHANGED frames

\* On to the next region, with n blocks more in the file.
Advance(s, n) ==
  frames' = [frames EXCEPT ![s].next = @ + 1, ![s].pos = @ + n]

\* What a write of block b at place pos can make of a file: the same block is
\* overwritten as a whole; another one in its way is cut or buried, and what
\* is left of it and behind it makes no sense.
Before(file, pos) ==
  [i \in 1 .. pos - 1 |-> IF i <= Len(file) THEN file[i] ELSE Torn]
Put(file, pos, b) ==
  IF pos <= Len(file) /\ file[pos].slot = b.slot
  THEN {[file EXCEPT ![pos] = b]}
  ELSE LET upTo == Append(Before(file, pos), b) IN
       {upTo} \cup IF pos <= Len(file) THEN {Append(upTo, Torn)} ELSE {}

\* The block in turn, as memory is now.
Block(s) ==
  CASE Slot(s) = "ctx" -> [slot |-> "ctx", via |-> s, fs |-> fs]
    [] Slot(s) = "lib" -> [slot |-> "lib", data |-> lib]
    [] Slot(s) = "app" -> [slot |-> "app", work |-> work]
    [] Slot(s) = "stack" ->
         [slot |-> "stack", inCall |-> inCall, frames |-> frames]

\* Memory that is not there is not in /proc/self/maps, and before the wrappers
\* are initialised there is no list that names a region as the upper half's.
Skipped(s) ==
  \/ Slot(s) = "app" /\ work = LOST
  \/ Slot(s) # "ctx" /\ lib.lhInfo = NULL

\* A region is written when the lower half lists it as the upper half's.
Listed(s) == ~Skipped(s) /\ (Slot(s) = "ctx" \/ lib.lhInfo = lh)

SkipRegion(s) ==
  /\ Saving(s) /\ Skipped(s)
  /\ Advance(s, 0)
  /\ UNCHANGED <<process, files, lib, app, used>>

\* lhMmapListFptr still points into a lower half that is not loaded.
ListGone(s) ==
  /\ Saving(s) /\ ~Skipped(s) /\ ~Listed(s)
  /\ Dies
  /\ UNCHANGED used

WriteBlock(s) ==
  /\ Saving(s) /\ Listed(s)
  /\ frames[s].fd
  /\ img' \in Put(img, frames[s].pos, Block(s))
  /\ Advance(s, 1)
  /\ UNCHANGED <<process, addrBin, lib, app, used>>

\* The descriptor of an activation that came back from an image is not open
\* any more; the error is not acted upon.
WriteNowhere(s) ==
  /\ Saving(s) /\ Listed(s)
  /\ ~frames[s].fd
  /\ Advance(s, 0)
  /\ UNCHANGED <<process, files, lib, app, used>>

\* A write fails before or after some of its bytes; nor is this acted upon,
\* and the next block follows where the descriptor was left.
WriteFails(s) ==
  /\ Saving(s) /\ Listed(s)
  /\ frames[s].fd
  /\ Spend("fault")
  /\ \/ Advance(s, 0) /\ UNCHANGED img
     \/ Advance(s, 1) /\ img' \in Put(img, frames[s].pos, Torn)
  /\ UNCHANGED <<process, addrBin, lib, app>>

\* Mutant: the loop over the regions stops before the last one.
MutantAllButOneSaved(s) == frames[s].next >= 4

AllSaved(s) == frames[s].next > 4

Close(s) ==
  /\ Runs(s) /\ At(s, "save")
  /\ AllSaved(s)
  /\ Goto(s, "finish")
  /\ UNCHANGED <<process, files, lib, app, used>>

\* The state once the application is to be told that it resumes.
ResumingLib == [lib EXCEPT !.state = "POST_RESUME"]

Finish(s) ==
  /\ Runs(s) /\ At(s, "finish")
  /\ lib' = ResumingLib
  /\ Goto(s, "return")
  /\ UNCHANGED <<process, files, app, used>>

\* The signal's activation returns to whatever it interrupted.
SignalReturn ==
  /\ Runs("signal") /\ At("signal", "return")
  /\ frames' = [frames EXCEPT !["signal"] = NoFrame]
  /\ UNCHANGED <<process, files, lib, app, used>>

\* doCheckpoint reads the state into tempState ...
ReadState ==
  /\ Runs("call") /\ At("call", "return")
  /\ frames' = [frames EXCEPT !["call"].pc = "reset",
                              !["call"].temp = lib.state]
  /\ UNCHANGED <<process, files, lib, app, used>>

\* Mutant: the state is not reset for subsequent checkpoints.
MutantStateAfter(temp) == lib.state

StateAfter(temp) ==
  IF temp \in {"POST_RESTART", "POST_RESUME"} THEN "RUNNING" ELSE lib.state

\* ... and resets it for subsequent checkpoints before it returns.
ReturnToApp ==
  /\ Runs("call") /\ At("call", "reset")
  /\ answer' = frames["call"].temp
  /\ lib' = [lib EXCEPT !.state = StateAfter(frames["call"].temp)]
  /\ frames' = [frames EXCEPT !["call"] = NoFrame]
  /\ UNCHANGED <<process, files, work, fs, inCall, used>>
-----------------------------------------------------------------------------
(* Process life.                                                           *)

\* The process is killed, or the application ends, at any point.
Crash ==
  /\ alive
  /\ Dies
  /\ UNCHANGED used

\* A new lower half writes ./addr.bin before anything else, then either
\* starts ld.so and the application ...
Launch(b) ==
  /\ ~alive
  /\ Spend("run")
  /\ alive' = TRUE
  /\ lh' = b
  /\ addrBin' = b
  /\ installed' = TRUE
  /\ lib' = [NewLib EXCEPT !.jump = b]
  /\ UNCHANGED <<img, app, frames>>

\* The regions that an image holds, and what it has for one of them.
Has(r) == \E i \in 2 .. Len(img) : img[i].slot = r
Saved(r) == img[CHOOSE i \in 2 .. Len(img) : img[i].slot = r]

\* Whether a restart gets to setcontext and there finds code and stack: there
\* is no mark that an image is complete, and the end of the file is its end.
\* A block that makes no sense is refused, as is a region that is there twice.
ComesUp ==
  /\ Len(img) > 0 /\ img[1].slot = "ctx"
  /\ \A i \in 2 .. Len(img) : img[i].slot \in RegionNames
  /\ \A i, j \in 2 .. Len(img) : img[i].slot = img[j].slot => i = j
  /\ Has("lib") /\ Has("stack")
  /\ Saved("stack").frames[img[1].via].pc # "idle"

\* An MPI call that the image froze belongs to a library instance that is gone.
Detached(c) ==
  IF c # NULL /\ c.kind = "mpi" /\ c.at = "lower" THEN [c EXCEPT !.to = NULL]
  ELSE c

\* The stack of the restored process: the frame of the saved context is back
\* in getcontext, those above it are dead, those below it wait as they did.
RestoredFrame(s) ==
  LET f == Saved("stack").frames[s] IN
  IF s = img[1].via
  THEN [f EXCEPT !.pc = "opened", !.next = 1, !.pos = 1, !.fd = FALSE,
                 !.resumed = "ctx"]
  ELSE IF s = "call" /\ f.pc # "idle"
       THEN [f EXCEPT !.fd = FALSE, !.resumed = "below"]
       ELSE NoFrame

\* Mutant: the application's memory is mapped but its bytes are not read in.
MutantRestoredWork == 0

RestoredWork == IF Has("app") THEN Saved("app").work ELSE LOST

\* ... or restores the image and jumps into the saved context.
Restore(b) ==
  /\ ~alive
  /\ Spend("run")
  /\ ComesUp
  /\ alive' = TRUE
  /\ lh' = b
  /\ addrBin' = b
  /\ lib' = Saved("lib").data
  /\ work' = RestoredWork
  /\ fs' = img[1].fs
  /\ inCall' = Detached(Saved("stack").inCall)
  /\ frames' = [s \in Sources |-> RestoredFrame(s)]
  /\ UNCHANGED <<installed, img, answer>>

\* A missing or torn image: the new process fails, ./addr.bin stays.
RestoreFails(b) ==
  /\ ~alive
  /\ Spend("run")
  /\ ~ComesUp
  /\ addrBin' = b
  /\ UNCHANGED <<process, img, lib, app, frames>>
-----------------------------------------------------------------------------
HandlerStep(s) ==
  \/ Open(s) \/ OpenFails(s) \/ ContextFails(s)
  \/ TestState(s) \/ Mark(s) \/ ResumeAfterRestart(s)
  \/ SkipRegion(s) \/ ListGone(s)
  \/ WriteBlock(s) \/ WriteNowhere(s) \/ WriteFails(s)
  \/ Close(s) \/ Finish(s)

WrapperStep ==
  \/ ReadInfo \/ ExitNoAddrBin \/ UnlinkInfo \/ SetInitialized
  \/ Jump \/ LowerReturn \/ LowerGone

\* What the rank's only thread does without waiting for anyone.
ThreadStep ==
  \/ \E s \in Sources : HandlerStep(s)
  \/ SignalReturn \/ ReadState \/ ReturnToApp
  \/ WrapperStep

Next ==
  \/ Work \/ WorkGone \/ MpiCall \/ MmapCall \/ LibcCall
  \/ DoCheckpoint \/ Signal \/ SignalKills
  \/ ThreadStep
  \/ Crash
  \/ \E b \in LowerHalves : Launch(b) \/ Restore(b) \/ RestoreFails(b)

Spec == Init /\ [][Next]_vars

\* A runnable thread is scheduled; its system calls return.
FairSpec == Spec /\ WF_vars(ThreadStep)
-----------------------------------------------------------------------------
(* Properties.                                                             *)

TypeOK ==
  /\ alive \in BOOLEAN
  /\ lh \in LowerHalves \cup {NULL}
  /\ installed \in BOOLEAN
  /\ addrBin \in LowerHalves \cup {NULL}
  /\ img \in Seq(Blocks)
  /\ lib \in Libs
  /\ lib.initialized => lib.lhInfo # NULL
  /\ work \in Nat \cup {LOST}
  /\ fs \in LowerHalves \cup {"upper"}
  /\ inCall \in Calls \cup {NULL}
  /\ frames \in [Sources -> Frames]
  /\ answer \in States \cup {NULL}
  /\ used \in [Events -> Nat]

\* The copy of the data of libuhwrappers.so in an image is always one that
\* says POST_RESTART: the state is changed before memory is copied and back
\* only after (mem-ckpt.c:97-106), also when two handlers are at it.
MarkedImage ==
  \A i \in DOMAIN img :
    img[i].slot = "lib" => img[i].data.state = "POST_RESTART"

\* The activation through which a process came back from an image takes the
\* other branch, wherever the image was taken; one that it had interrupted may
\* be past the test and copies on, but never into the image: its descriptor is
\* gone, and if it still has to open the file it takes the other branch too
\* (checkpointHandler's two branches, mem-ckpt.c:85-110).
RestoredTakesNoCheckpoint ==
  \A s \in Sources :
    frames[s].pc \in {"mark", "save", "finish"} =>
      /\ frames[s].resumed # "ctx"
      /\ frames[s].resumed = "below" => ~frames[s].fd

\* The data of the two halves agree whenever the application runs: either the
\* wrappers hold the loaded lower half, or ./addr.bin is there to be read
\* (initialize_wrappers, reset_wrappers, readLhInfoAddr).
WrappersUsable ==
  AppRuns =>
    \/ lib.initialized /\ lib.lhInfo = lh
    \/ ~lib.initialized /\ addrBin = lh

CallReturns == At("call", "reset") /\ frames'["call"].pc = "idle" /\ alive'

\* doCheckpoint answers POST_RESTART exactly when the process was restored
\* while the call was in progress (ckpt-restart.h:25-27).
AnswerMatchesCause ==
  [][CallReturns =>
       (answer' = "POST_RESTART" <=> frames["call"].resumed # "no")]_vars

\* The progress a restart would bring back: NULL when none comes up, LOST when
\* one comes up without the memory that has it.
Held == IF ComesUp THEN RestoredWork ELSE NULL

\* When doCheckpoint answers POST_RESUME there is a checkpoint, and it is of
\* the present (ckpt-restart.h:26, mem-ckpt.c:105-106).
ReportedImageHoldsWork ==
  [][CallReturns /\ answer' = "POST_RESUME" => Held = work]_vars

\* Every activation of checkpointHandler ends: doCheckpoint returns and the
\* signal goes back to what it interrupted, or the process is no more.
HandlerEnds == \A s \in Sources : ~Idle(s) ~> Idle(s)

\* The rank and its image file keep the promise of CheckpointStore, with the
\* file counted as a checkpoint as soon as and as long as a process comes up
\* from it.
\* A process started from the beginning has the handler, a restored one not:
\* constructors do not run again (mem-ckpt.c:41-51, mem-restore.c:102-123).
Store == INSTANCE CheckpointStore WITH
  up <- alive,
  fresh <- installed,
  progress <- work,
  stable <- Held

KeepsStorePromise == Store!Spec
=============================================================================
