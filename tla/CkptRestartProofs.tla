-------------------------- MODULE CkptRestartProofs --------------------------
(***************************************************************************)
(* Proofs about CkptRestart, for any set of lower-half builds, any order   *)
(* of the regions, any signal contexts and any budget of events.           *)
(***************************************************************************)
EXTENDS CkptRestart, SequenceTheorems, TLAPS

Copying == {"save", "finish"}

\* Where a lower half has been read from ./addr.bin it is known: in the
\* wrapper that has read it, and in every image, since regions are saved only
\* with the help of a lower half.
HalvesKnown ==
  /\ inCall # NULL /\ inCall.at \in {"unlink", "set"} => lib.lhInfo # NULL
  /\ \A i \in DOMAIN img : img[i].slot = "lib" => img[i].data.lhInfo # NULL

\* While memory is copied the state says what a restored process must read.
CopyingIsMarked == \A s \in Sources : frames[s].pc \in Copying =>
                                        lib.state = "POST_RESTART"

\* Two handlers never copy at the same time, and none is about to while the
\* other one does.
OneCopies ==
  frames["call"].pc \in Copying => frames["signal"].pc \notin Copying \cup {"mark"}

\* Restored activations live in processes that never installed the handler,
\* where no new activation for a signal appears.
RestoredHasNoHandler ==
  /\ \A s \in Sources : frames[s].resumed # "no" => ~installed
  /\ ~installed /\ ~Idle("signal") => frames["signal"].resumed = "ctx"

\* What a restored activation will find when it tests the state.
RestoredIsMarked ==
  \A s \in Sources :
    frames[s].resumed # "no" /\ frames[s].pc \in {"open", "opened"} =>
      lib.state = "POST_RESTART"

\* A process that is not running has no activation, no wrapper in progress and
\* no handler.
DeadIsBlank == ~alive => frames = NoFrames /\ ~installed /\ inCall = NULL

IInv ==
  /\ TypeOK
  /\ DeadIsBlank
  /\ HalvesKnown
  /\ MarkedImage
  /\ CopyingIsMarked
  /\ OneCopies
  /\ RestoredHasNoHandler
  /\ RestoredIsMarked
  /\ RestoredTakesNoCheckpoint
-----------------------------------------------------------------------------
(* Files of blocks.                                                        *)

LEMMA SlotsAre ==
  /\ Slots \in [1 .. 4 -> RegionNames \cup {"ctx"}]
  /\ Slots[1] = "ctx"
  /\ \A i \in 2 .. 4 : Slots[i] \in RegionNames
  /\ \A i, j \in 1 .. 4 : Slots[i] = Slots[j] => i = j
<1>1. \A i \in 2 .. 4 : Slots[i] = Regions[i - 1] /\ i - 1 \in 1 .. 3
  BY DEF Slots
<1>2. Slots[1] = "ctx" /\ \A i \in 2 .. 4 : Slots[i] \in RegionNames
  BY <1>1, RegionsAssumption DEF Slots
<1>3. Slots \in [1 .. 4 -> RegionNames \cup {"ctx"}]
  <2>1. \A i \in 1 .. 4 : Slots[i] \in RegionNames \cup {"ctx"}
    <3> TAKE i \in 1 .. 4
    <3>1. i = 1 \/ i \in 2 .. 4
      OBVIOUS
    <3> QED BY <1>2, <3>1
  <2>2. Slots = [i \in 1 .. 4 |-> Slots[i]]
    BY DEF Slots
  <2> QED BY <2>1, <2>2
<1>4. ASSUME NEW i \in 1 .. 4, NEW j \in 1 .. 4, Slots[i] = Slots[j]
      PROVE  i = j
  <2>1. CASE i = 1 \/ j = 1
    <3>1. \A k \in 2 .. 4 : Slots[k] # "ctx"
      BY <1>2 DEF RegionNames
    <3> QED BY <1>2, <1>4, <2>1, <3>1
  <2>2. CASE i # 1 /\ j # 1
    <3>1. i \in 2 .. 4 /\ j \in 2 .. 4
      BY <2>2
    <3>2. i - 1 = j - 1
      BY <1>1, <1>4, <3>1, RegionsAssumption
    <3> QED BY <3>2
  <2> QED BY <2>1, <2>2
<1> QED BY <1>2, <1>3, <1>4

\* A block is of the kind that its slot says.
LEMMA BlockKinds ==
  ASSUME NEW b \in Blocks
  PROVE  /\ b.slot = "ctx" => b \in CtxBlocks
         /\ b.slot = "lib" => b \in LibBlocks
         /\ b.slot = "app" => b \in AppBlocks
         /\ b.slot = "stack" => b \in StackBlocks
BY DEF Blocks, CtxBlocks, LibBlocks, AppBlocks, StackBlocks, Torn

LEMMA TornIsBlock == Torn \in Blocks /\ Torn.slot = "torn"
BY DEF Blocks, Torn

LEMMA BeforeIs ==
  ASSUME NEW file \in Seq(Blocks), NEW pos \in Nat \ {0}
  PROVE  /\ Before(file, pos) \in Seq(Blocks)
         /\ Len(Before(file, pos)) = pos - 1
         /\ \A i \in 1 .. pos - 1 :
              Before(file, pos)[i] = IF i <= Len(file) THEN file[i] ELSE Torn
<1>1. \A i \in 1 .. pos - 1 : (IF i <= Len(file) THEN file[i] ELSE Torn) \in Blocks
  <2> TAKE i \in 1 .. pos - 1
  <2>1. i <= Len(file) => file[i] \in Blocks
    BY ElementOfSeq
  <2> QED BY <2>1, TornIsBlock
<1>2. pos - 1 \in Nat
  OBVIOUS
<1> QED BY <1>1, <1>2 DEF Before

\* What a write leaves in a file: blocks that were there, the one written, and
\* torn ones.
LEMMA PutBlocks ==
  ASSUME NEW file \in Seq(Blocks), NEW pos \in Nat \ {0}, NEW b \in Blocks,
         NEW f \in Put(file, pos, b)
  PROVE  /\ f \in Seq(Blocks)
         /\ \A i \in DOMAIN f : \/ i \in DOMAIN file /\ f[i] = file[i]
                                \/ f[i] = b
                                \/ f[i] = Torn
<1> DEFINE u == Append(Before(file, pos), b)
<1>1. CASE pos <= Len(file) /\ file[pos].slot = b.slot
  <2>1. f = [file EXCEPT ![pos] = b]
    BY <1>1 DEF Put
  <2>2. f \in Seq(Blocks) /\ Len(f) = Len(file)
    BY <1>1, <2>1, ExceptSeq
  <2> QED BY <2>1, <2>2
<1>2. CASE ~(pos <= Len(file) /\ file[pos].slot = b.slot)
  <2>1. f = u \/ f = Append(u, Torn)
    BY <1>2 DEF Put
  <2>2. /\ u \in Seq(Blocks) /\ Len(u) = pos
        /\ \A i \in 1 .. pos : u[i] = IF i = pos THEN b ELSE Before(file, pos)[i]
    <3> DEFINE B == Before(file, pos)
    <3>1. B \in Seq(Blocks) /\ Len(B) = pos - 1
      BY BeforeIs
    <3>2. u = Append(B, b)
      OBVIOUS
    <3> HIDE DEF B, u
    <3>3. u \in Seq(Blocks) /\ Len(u) = Len(B) + 1
      BY <3>1, <3>2
    <3>4. Len(u) = pos
      BY <3>1, <3>3
    <3>5. \A i \in 1 .. pos : u[i] = IF i = pos THEN b ELSE B[i]
      BY <3>1, <3>2
    <3> QED BY <3>3, <3>4, <3>5 DEF B
  <2>3. \A i \in 1 .. pos : \/ i \in DOMAIN file /\ u[i] = file[i]
                            \/ u[i] = b
                            \/ u[i] = Torn
    <3> TAKE i \in 1 .. pos
    <3>1. CASE i = pos
      BY <2>2, <3>1
    <3>2. CASE i # pos
      <4>1. i \in 1 .. pos - 1
        BY <3>2
      <4>2. u[i] = IF i <= Len(file) THEN file[i] ELSE Torn
        BY <2>2, <3>2, <4>1, BeforeIs
      <4> QED BY <4>1, <4>2
    <3> QED BY <3>1, <3>2
  <2>4. CASE f = u
    BY <2>2, <2>3, <2>4
  <2>5. CASE f = Append(u, Torn)
    <3> HIDE DEF u
    <3>1. f \in Seq(Blocks) /\ Len(f) = pos + 1
      BY <2>2, <2>5, TornIsBlock
    <3>2. f[pos + 1] = Torn /\ \A i \in 1 .. pos : f[i] = u[i]
      BY <2>2, <2>5
    <3> QED BY <2>3, <3>1, <3>2
  <2> QED BY <2>1, <2>4, <2>5
<1> QED BY <1>1, <1>2

\* The blocks that a restart finds.
LEMMA SavedBlocks ==
  ASSUME img \in Seq(Blocks), NEW r \in {"lib", "app", "stack"}, Has(r)
  PROVE  /\ \E i \in DOMAIN img : Saved(r) = img[i]
         /\ Saved(r) \in Blocks /\ Saved(r).slot = r
<1>1. \E i \in 2 .. Len(img) : img[i].slot = r
  BY DEF Has
<1>2. PICK i \in 2 .. Len(img) : Saved(r) = img[i] /\ img[i].slot = r
  BY <1>1 DEF Saved
<1>3. i \in DOMAIN img /\ img[i] \in Blocks
  BY <1>2, ElementOfSeq
<1> QED BY <1>2, <1>3

LEMMA ComesUpBlocks ==
  ASSUME img \in Seq(Blocks), ComesUp
  PROVE  /\ img[1] \in CtxBlocks
         /\ Saved("lib") \in LibBlocks
         /\ Saved("stack") \in StackBlocks
         /\ \E i \in DOMAIN img : Saved("lib") = img[i]
         /\ RestoredWork \in Nat \cup {LOST}
<1>1. img[1] \in CtxBlocks
  BY BlockKinds, ElementOfSeq DEF ComesUp
<1>2. Saved("lib") \in LibBlocks /\ \E i \in DOMAIN img : Saved("lib") = img[i]
  BY SavedBlocks, BlockKinds DEF ComesUp
<1>3. Saved("stack") \in StackBlocks
  BY SavedBlocks, BlockKinds DEF ComesUp
<1>4. Has("app") => Saved("app") \in AppBlocks
  BY SavedBlocks, BlockKinds
<1>5. RestoredWork \in Nat \cup {LOST}
  BY <1>4 DEF RestoredWork, AppBlocks
<1> QED BY <1>1, <1>2, <1>3, <1>5
-----------------------------------------------------------------------------
(* Typing of the model's helpers.                                          *)

LEMMA FrameTypes ==
  /\ NoFrame \in Frames
  /\ NewFrame \in Frames
  /\ NoFrames \in [Sources -> Frames]
<1>1. NoFrame \in Frames
  BY DEF NoFrame, Frames, PCs, States
<1>2. NewFrame \in Frames
  BY <1>1 DEF NewFrame, NoFrame, Frames, PCs, States
<1>3. NoFrames \in [Sources -> Frames]
  BY <1>1 DEF NoFrames
<1> QED BY <1>1, <1>2, <1>3

LEMMA NewLibType == NewLib \in Libs /\ ~NewLib.initialized
BY DEF NewLib, Libs, States

\* Spend counts one of a bounded event.
LEMMA SpendTypes ==
  ASSUME TypeOK, NEW e \in Events, Spend(e)
  PROVE  used' \in [Events -> Nat]
BY DEF TypeOK, Spend

\* A move of one activation is a well-formed move.
LEMMA GotoTypes ==
  ASSUME TypeOK, NEW s \in Sources, NEW pc \in PCs, Goto(s, pc)
  PROVE  frames' \in [Sources -> Frames]
<1> DEFINE g == [frames[s] EXCEPT !.pc = pc]
<1>1. frames' = [frames EXCEPT ![s] = g]
  BY DEF Goto
<1>2. frames[s] \in Frames
  BY DEF TypeOK
<1>3. g \in Frames
  BY <1>2 DEF Frames
<1> QED BY <1>1, <1>3 DEF TypeOK

LEMMA AdvanceTypes ==
  ASSUME TypeOK, NEW s \in Sources, NEW n \in {0, 1}, Advance(s, n), Saving(s)
  PROVE  /\ frames' \in [Sources -> Frames]
         /\ \A t \in Sources : /\ frames'[t].pc = frames[t].pc
                               /\ frames'[t].resumed = frames[t].resumed
                               /\ frames'[t].fd = frames[t].fd
                               /\ frames'[t].temp = frames[t].temp
         /\ frames'[s].next = frames[s].next + 1
         /\ frames'[s].pos = frames[s].pos + n
<1> DEFINE f == frames[s]
           g == [f EXCEPT !.next = @ + 1, !.pos = @ + n]
<1>1. f \in Frames /\ f.next <= 4
  BY DEF TypeOK, Saving
<1>2. frames' = [frames EXCEPT ![s] = g]
  BY DEF Advance
<1>3. f.next + 1 \in 1 .. 5 /\ f.pos + n \in Nat \ {0}
  BY <1>1 DEF Frames
<1>4. g \in Frames /\ g.pc = f.pc /\ g.resumed = f.resumed /\ g.fd = f.fd
      /\ g.temp = f.temp /\ g.next = f.next + 1 /\ g.pos = f.pos + n
  <2> HIDE DEF f
  <2> QED BY <1>1, <1>3 DEF Frames
<1> QED BY <1>2, <1>4 DEF TypeOK

\* The block in turn is a block of its slot.
LEMMA BlockType ==
  ASSUME TypeOK, NEW s \in Sources, Saving(s), Listed(s)
  PROVE  /\ Block(s) \in Blocks
         /\ Block(s).slot = Slot(s)
         /\ Slot(s) = "lib" => Block(s).data = lib
         /\ Slot(s) = "app" => Block(s).work = work
         /\ Slot(s) = "stack" => /\ Block(s).inCall = inCall
                                 /\ Block(s).frames = frames
         /\ Slot(s) = "ctx" => Block(s).via = s
<1>1. frames[s].next \in 1 .. 4
  BY DEF TypeOK, Frames, Saving
<1>2. Slot(s) \in RegionNames \cup {"ctx"}
  BY <1>1, SlotsAre DEF Slot
<1>3. CASE Slot(s) = "ctx"
  BY <1>3 DEF Block, Blocks, CtxBlocks, TypeOK
<1>4. CASE Slot(s) = "lib"
  BY <1>4 DEF Block, Blocks, LibBlocks, TypeOK
<1>5. CASE Slot(s) = "app"
  BY <1>5 DEF Block, Blocks, AppBlocks, TypeOK, Listed, Skipped
<1>6. CASE Slot(s) = "stack"
  BY <1>6 DEF Block, Blocks, StackBlocks, TypeOK
<1> QED BY <1>2, <1>3, <1>4, <1>5, <1>6 DEF RegionNames
-----------------------------------------------------------------------------
(* The inductive invariant.                                                *)

LEMMA InitIInv == Init => IInv
<1> SUFFICES ASSUME Init PROVE IInv
  OBVIOUS
<1>1. TypeOK
  <2>1. img \in Seq(Blocks)
    BY EmptySeq DEF Init
  <2> QED BY <2>1, FrameTypes, NewLibType DEF Init, TypeOK, Events
<1>2. \A s \in Sources : frames[s].pc = "idle" /\ frames[s].resumed = "no"
  BY DEF Init, NoFrames, NoFrame
<1>3. img = <<>> /\ inCall = NULL /\ frames = NoFrames /\ ~installed
  BY DEF Init
<1> QED
  BY <1>1, <1>2, <1>3
     DEF IInv, DeadIsBlank, HalvesKnown, MarkedImage,
         CopyingIsMarked, OneCopies, RestoredHasNoHandler,
         RestoredIsMarked, RestoredTakesNoCheckpoint, Copying, Idle, Sources

\* A process that ends leaves nothing behind that could go wrong.
LEMMA DiesIInv ==
  ASSUME IInv, Dies, used' \in [Events -> Nat]
  PROVE  IInv'
<1>1. TypeOK'
  BY FrameTypes, NewLibType DEF Dies, IInv, TypeOK, files
<1>2. \A s \in Sources : frames'[s].pc = "idle" /\ frames'[s].resumed = "no"
  BY DEF Dies, NoFrames, NoFrame
<1>3. img' = img /\ inCall' = NULL /\ frames' = NoFrames /\ ~installed'
  BY DEF Dies, files
<1> QED
  BY <1>1, <1>2, <1>3
     DEF IInv, DeadIsBlank, HalvesKnown, MarkedImage,
         CopyingIsMarked, OneCopies, RestoredHasNoHandler,
         RestoredIsMarked, RestoredTakesNoCheckpoint, Copying, Idle, Sources

\* A process comes up, from the beginning or from an image.
LEMMA LaunchIInv ==
  ASSUME IInv, NEW b \in LowerHalves, Launch(b)
  PROVE  IInv'
<1>1. used' \in [Events -> Nat]
  BY SpendTypes DEF IInv, Launch, Events
<1>2. UNCHANGED <<img, app, frames>> /\ installed' = TRUE /\ alive' = TRUE
  BY DEF Launch
<1>3. lib' \in Libs /\ ~lib'.initialized
  BY NewLibType DEF Launch, Libs
<1>4. TypeOK'
  BY <1>1, <1>2, <1>3 DEF IInv, TypeOK, Launch, app
<1>5. \A s \in Sources : frames[s].pc = "idle" /\ frames[s].resumed = "no"
  BY DEF Launch, IInv, DeadIsBlank, NoFrames, NoFrame
<1>6. inCall' = NULL
  BY <1>2 DEF Launch, IInv, DeadIsBlank, app
<1> QED
  BY <1>2, <1>4, <1>5, <1>6
     DEF IInv, DeadIsBlank, HalvesKnown, MarkedImage,
         CopyingIsMarked, OneCopies, RestoredHasNoHandler,
         RestoredIsMarked, RestoredTakesNoCheckpoint, Copying, Idle, Sources

\* The frame a restored process finds on its stack for source s.
LEMMA RestoredFrames ==
  ASSUME TypeOK, ComesUp, NEW s \in Sources
  PROVE  /\ RestoredFrame(s) \in Frames
         /\ ~RestoredFrame(s).fd
         /\ \/ RestoredFrame(s) = NoFrame
            \/ RestoredFrame(s).pc = "opened" /\ RestoredFrame(s).resumed = "ctx"
            \/ s = "call" /\ RestoredFrame(s).resumed = "below"
<1> DEFINE f == Saved("stack").frames[s]
<1>1. f \in Frames
  BY ComesUpBlocks DEF TypeOK, StackBlocks
<1>2. CASE s = img[1].via
  <2>1. RestoredFrame(s) = [f EXCEPT !.pc = "opened", !.next = 1, !.pos = 1,
                                     !.fd = FALSE, !.resumed = "ctx"]
    BY <1>2 DEF RestoredFrame
  <2> HIDE DEF f
  <2>2. RestoredFrame(s) \in Frames
    <3>1. 1 \in 1 .. 5 /\ 1 \in Nat \ {0} /\ "opened" \in PCs
      BY DEF PCs
    <3> QED BY <1>1, <2>1, <3>1 DEF Frames
  <2> QED BY <1>1, <2>1, <2>2 DEF Frames
<1>3. CASE s # img[1].via /\ s = "call" /\ f.pc # "idle"
  <2>1. RestoredFrame(s) = [f EXCEPT !.fd = FALSE, !.resumed = "below"]
    BY <1>3 DEF RestoredFrame
  <2> HIDE DEF f
  <2> QED BY <1>1, <1>3, <2>1 DEF Frames
<1>4. CASE s # img[1].via /\ ~(s = "call" /\ f.pc # "idle")
  BY <1>4, FrameTypes DEF RestoredFrame, NoFrame
<1> QED BY <1>2, <1>3, <1>4

LEMMA RestoreIInv ==
  ASSUME IInv, NEW b \in LowerHalves, Restore(b)
  PROVE  IInv'
<1>1. used' \in [Events -> Nat]
  BY SpendTypes DEF IInv, Restore, Events
<1>2. ComesUp /\ frames' = [s \in Sources |-> RestoredFrame(s)]
  BY DEF Restore
<1>3. /\ img[1] \in CtxBlocks /\ Saved("lib") \in LibBlocks
      /\ Saved("stack") \in StackBlocks /\ RestoredWork \in Nat \cup {LOST}
      /\ Saved("lib").data.state = "POST_RESTART"
      /\ Saved("lib").data.lhInfo # NULL
  <2>1. img \in Seq(Blocks)
    BY DEF IInv, TypeOK
  <2>2. Saved("lib").slot = "lib"
    BY <1>2, <2>1, ComesUpBlocks DEF LibBlocks
  <2> QED BY <1>2, <2>1, <2>2, ComesUpBlocks DEF IInv, MarkedImage, HalvesKnown
<1>4. Detached(Saved("stack").inCall) \in Calls \cup {NULL}
  BY <1>3 DEF Detached, StackBlocks, Calls
<1>5. TypeOK'
  <2>1. frames' \in [Sources -> Frames]
    BY <1>2, RestoredFrames DEF IInv
  <2> QED
    BY <1>1, <1>3, <1>4, <2>1 DEF IInv, TypeOK, Restore, CtxBlocks, LibBlocks
<1>6. /\ lib' = Saved("lib").data /\ img' = img /\ alive' = TRUE
      /\ installed' = FALSE
  BY DEF Restore, IInv, DeadIsBlank, TypeOK
<1>7. \A s \in Sources :
        \/ frames'[s].pc = "idle" /\ frames'[s].resumed = "no"
        \/ frames'[s].pc = "opened" /\ frames'[s].resumed = "ctx"
        \/ s = "call" /\ frames'[s].resumed = "below" /\ ~frames'[s].fd
  BY <1>2, RestoredFrames DEF IInv, NoFrame
<1>8. HalvesKnown' /\ MarkedImage' /\ CopyingIsMarked' /\ RestoredIsMarked'
  BY <1>3, <1>6
     DEF IInv, HalvesKnown, MarkedImage, CopyingIsMarked, RestoredIsMarked
<1>9. DeadIsBlank' /\ OneCopies' /\ RestoredHasNoHandler'
      /\ RestoredTakesNoCheckpoint'
  BY <1>6, <1>7
     DEF DeadIsBlank, OneCopies, RestoredHasNoHandler,
         RestoredTakesNoCheckpoint, Copying, Idle, Sources
<1> QED BY <1>5, <1>8, <1>9 DEF IInv
-----------------------------------------------------------------------------
(* A step of an activation of the handler preserves the invariant.         *)

\* What is said of one activation's steps.
Steady(s) == \A t \in Sources : t # s => frames'[t] = frames[t]

LEMMA GotoIs ==
  ASSUME TypeOK, NEW s \in Sources, NEW pc \in PCs, Goto(s, pc)
  PROVE  /\ Steady(s)
         /\ frames'[s].pc = pc
         /\ frames'[s].resumed = frames[s].resumed
         /\ frames'[s].fd = frames[s].fd
         /\ frames'[s].temp = frames[s].temp
BY DEF TypeOK, Goto, Frames, Steady

\* A handler that moves on without copying or touching memory.
LEMMA MoveIInv ==
  ASSUME IInv, NEW s \in Sources, Runs(s), UNCHANGED <<process, files, app>>,
         TypeOK', Steady(s),
         lib'.lhInfo = lib.lhInfo,
         frames'[s].resumed = frames[s].resumed,
         frames'[s].pc \notin {"open", "opened", "mark", "idle"} \cup Copying,
         lib'.state = lib.state \/ frames[s].pc = "finish"
  PROVE  IInv'
<1> USE DEF IInv, HalvesKnown, MarkedImage, CopyingIsMarked, OneCopies,
            RestoredHasNoHandler, RestoredIsMarked, RestoredTakesNoCheckpoint,
            Copying, Sources, Idle, Runs, Steady
<1>1. alive' /\ DeadIsBlank'
  BY DEF process, DeadIsBlank
<1>2. HalvesKnown' /\ MarkedImage'
  BY DEF files, app
<1>3. OneCopies' /\ RestoredHasNoHandler' /\ RestoredTakesNoCheckpoint'
  BY DEF process
<1>4. CopyingIsMarked' /\ RestoredIsMarked'
  OBVIOUS
<1> QED BY <1>1, <1>2, <1>3, <1>4

LEMMA HandlerIInv ==
  ASSUME IInv, NEW s \in Sources, HandlerStep(s)
  PROVE  IInv'
<1> USE DEF Idle, At
<1>0. TypeOK /\ frames \in [Sources -> Frames] /\ lib \in Libs
  BY DEF IInv, TypeOK
<1>1. CASE Open(s)
  <2> USE DEF IInv, HalvesKnown, MarkedImage, CopyingIsMarked, OneCopies,
              RestoredHasNoHandler, RestoredIsMarked,
              RestoredTakesNoCheckpoint, Copying, Sources
  <2>1. /\ Runs(s) /\ frames[s].pc = "open" /\ img' = <<>>
        /\ UNCHANGED <<process, addrBin, lib, app, used>>
        /\ frames' = [frames EXCEPT ![s] =
             [frames[s] EXCEPT !.pc = "opened", !.fd = TRUE]]
    BY <1>0, <1>1 DEF Open, Frames
  <2> PICK g \in Frames : /\ g = [frames[s] EXCEPT !.pc = "opened", !.fd = TRUE]
                          /\ g.pc = "opened" /\ g.resumed = frames[s].resumed
    <3>1. frames[s] \in Frames
      BY <1>0
    <3> DEFINE h == [frames[s] EXCEPT !.pc = "opened", !.fd = TRUE]
    <3>2. h \in Frames /\ h.pc = "opened" /\ h.resumed = frames[s].resumed
      BY <3>1 DEF Frames, PCs
    <3> QED BY <3>2
  <2>2. /\ frames' \in [Sources -> Frames] /\ Steady(s)
        /\ frames'[s].pc = "opened" /\ frames'[s].resumed = frames[s].resumed
    BY <1>0, <2>1 DEF Steady
  <2>3. TypeOK'
    BY <2>1, <2>2 DEF TypeOK, process, app
  <2>4. DeadIsBlank' /\ HalvesKnown' /\ MarkedImage'
    BY <2>1 DEF Runs, DeadIsBlank, process, app
  <2>5. /\ CopyingIsMarked' /\ OneCopies' /\ RestoredHasNoHandler'
        /\ RestoredIsMarked' /\ RestoredTakesNoCheckpoint'
    BY <2>1, <2>2 DEF process, Steady
  <2> QED BY <2>3, <2>4, <2>5
<1>2. CASE OpenFails(s) \/ ContextFails(s)
  <2>1. /\ UNCHANGED <<process, files, lib, app>> /\ Goto(s, "return")
        /\ Runs(s) /\ Spend("fault")
    BY <1>2 DEF OpenFails, ContextFails
  <2>2. TypeOK'
    BY <1>0, <2>1, GotoTypes, SpendTypes
       DEF TypeOK, process, files, app, PCs, Events
  <2> QED BY <1>0, <2>1, <2>2, GotoIs, MoveIInv DEF PCs, Copying
<1>3. CASE TestState(s)
  <2> USE DEF IInv, HalvesKnown, MarkedImage, CopyingIsMarked, OneCopies,
              RestoredHasNoHandler, RestoredIsMarked,
              RestoredTakesNoCheckpoint, Copying, Sources
  <2>1. /\ UNCHANGED <<process, files, lib, app, used>> /\ Goto(s, "mark")
        /\ Runs(s) /\ frames[s].pc = "opened" /\ lib.state # "POST_RESTART"
    BY <1>3 DEF TestState, FirstReturn
  <2>2. TypeOK'
    BY <1>0, <2>1, GotoTypes DEF TypeOK, process, files, app, PCs
  <2>3. /\ Steady(s) /\ frames'[s].pc = "mark"
        /\ frames'[s].resumed = frames[s].resumed
    BY <1>0, <2>1, GotoIs DEF PCs
  <2>4. frames[s].resumed = "no"
    BY <2>1
  <2>5. DeadIsBlank' /\ HalvesKnown' /\ MarkedImage'
    BY <2>1 DEF Runs, DeadIsBlank, process, files, app
  <2>6. /\ CopyingIsMarked' /\ OneCopies' /\ RestoredHasNoHandler'
        /\ RestoredIsMarked' /\ RestoredTakesNoCheckpoint'
    BY <2>1, <2>3, <2>4 DEF process, Steady
  <2> QED BY <2>2, <2>5, <2>6
<1>4. CASE Mark(s)
  <2> USE DEF IInv, HalvesKnown, MarkedImage, CopyingIsMarked, OneCopies,
              RestoredHasNoHandler, RestoredIsMarked,
              RestoredTakesNoCheckpoint, Copying, Sources
  <2>1. /\ UNCHANGED <<process, files, app, used>> /\ Goto(s, "save")
        /\ Runs(s) /\ frames[s].pc = "mark" /\ lib' = MarkedLib
    BY <1>4 DEF Mark
  <2>2. lib' \in Libs /\ lib'.state = "POST_RESTART"
        /\ lib'.initialized = lib.initialized /\ lib'.lhInfo = lib.lhInfo
    BY <1>0, <2>1 DEF MarkedLib, Libs, States
  <2>3. TypeOK'
    BY <1>0, <2>1, <2>2, GotoTypes DEF TypeOK, process, files, app, PCs
  <2>4. /\ Steady(s) /\ frames'[s].pc = "save"
        /\ frames'[s].resumed = frames[s].resumed /\ frames'[s].fd = frames[s].fd
    BY <1>0, <2>1, GotoIs DEF PCs
  <2>5. DeadIsBlank' /\ HalvesKnown' /\ MarkedImage'
    BY <2>1, <2>2 DEF Runs, DeadIsBlank, process, files, app
  <2>6. /\ CopyingIsMarked' /\ RestoredHasNoHandler'
        /\ RestoredIsMarked' /\ RestoredTakesNoCheckpoint'
    BY <2>1, <2>2, <2>4 DEF process, Steady
  <2>7. OneCopies'
    BY <2>1, <2>4 DEF Steady, Runs
  <2> QED BY <2>3, <2>5, <2>6, <2>7
<1>5. CASE ResumeAfterRestart(s)
  <2>1. /\ UNCHANGED <<process, files, app, used>> /\ Goto(s, "return")
        /\ Runs(s) /\ lib' = ResetLib
    BY <1>5 DEF ResumeAfterRestart
  <2>2. lib' \in Libs /\ lib'.state = lib.state /\ lib'.initialized = FALSE
        /\ lib'.lhInfo = lib.lhInfo
    BY <1>0, <2>1 DEF ResetLib, Libs
  <2>3. TypeOK'
    BY <1>0, <2>1, <2>2, GotoTypes DEF TypeOK, process, files, app, PCs
  <2> QED BY <1>0, <2>1, <2>2, <2>3, GotoIs, MoveIInv DEF PCs, Copying
<1>6. CASE SkipRegion(s) \/ WriteNowhere(s) \/ WriteBlock(s) \/ WriteFails(s)
  <2> USE DEF IInv, HalvesKnown, MarkedImage, CopyingIsMarked, OneCopies,
              RestoredHasNoHandler, RestoredIsMarked,
              RestoredTakesNoCheckpoint, Copying, Sources
  <2>1. /\ UNCHANGED <<process, addrBin, lib, app>> /\ Saving(s) /\ Runs(s)
        /\ frames[s].pc = "save" /\ \E n \in {0, 1} : Advance(s, n)
    BY <1>6 DEF SkipRegion, WriteNowhere, WriteBlock, WriteFails, Saving, files
  <2>2. /\ frames' \in [Sources -> Frames]
        /\ \A t \in Sources : /\ frames'[t].pc = frames[t].pc
                              /\ frames'[t].resumed = frames[t].resumed
                              /\ frames'[t].fd = frames[t].fd
    BY <1>0, <2>1, AdvanceTypes
  <2>3. used' \in [Events -> Nat]
    BY <1>0, <1>6, SpendTypes
       DEF SkipRegion, WriteNowhere, WriteBlock, WriteFails, TypeOK, Events
  <2>4. /\ img' \in Seq(Blocks)
        /\ \A i \in DOMAIN img' :
             img'[i].slot = "lib" =>
               \/ i \in DOMAIN img /\ img'[i] = img[i]
               \/ img'[i].data = lib /\ lib.lhInfo # NULL
    <3>1. CASE img' = img
      BY <1>0, <3>1 DEF TypeOK
    <3>2. CASE WriteBlock(s)
      <4>1. Listed(s) /\ img' \in Put(img, frames[s].pos, Block(s))
        BY <3>2 DEF WriteBlock
      <4>2. frames[s].pos \in Nat \ {0} /\ img \in Seq(Blocks)
        BY <1>0 DEF TypeOK, Frames
      <4>3. /\ img' \in Seq(Blocks)
            /\ \A i \in DOMAIN img' : \/ i \in DOMAIN img /\ img'[i] = img[i]
                                      \/ img'[i] = Block(s)
                                      \/ img'[i] = Torn
        BY <1>0, <2>1, <4>1, <4>2, BlockType, PutBlocks
      <4>4. Slot(s) = "lib" => lib.lhInfo # NULL
        BY <4>1 DEF Listed, Skipped
      <4> QED BY <1>0, <2>1, <4>1, <4>3, <4>4, BlockType, TornIsBlock
    <3>3. CASE WriteFails(s) /\ img' # img
      <4>1. img' \in Put(img, frames[s].pos, Torn)
        BY <3>3 DEF WriteFails
      <4>2. frames[s].pos \in Nat \ {0} /\ img \in Seq(Blocks)
        BY <1>0 DEF TypeOK, Frames
      <4>3. /\ img' \in Seq(Blocks)
            /\ \A i \in DOMAIN img' : \/ i \in DOMAIN img /\ img'[i] = img[i]
                                      \/ img'[i] = Torn
        BY <4>1, <4>2, TornIsBlock, PutBlocks
      <4> QED BY <4>3, TornIsBlock
    <3> QED BY <1>6, <3>1, <3>2, <3>3 DEF SkipRegion, WriteNowhere, files
  <2>5. TypeOK'
    BY <2>1, <2>2, <2>3, <2>4 DEF TypeOK, process, app
  <2>6. lib.state = "POST_RESTART"
    BY <2>1
  <2>7. DeadIsBlank' /\ HalvesKnown' /\ MarkedImage'
    BY <2>1, <2>4, <2>6 DEF Runs, DeadIsBlank, process, app
  <2>8. /\ CopyingIsMarked' /\ OneCopies' /\ RestoredHasNoHandler'
        /\ RestoredIsMarked' /\ RestoredTakesNoCheckpoint'
    BY <2>1, <2>2 DEF process
  <2> QED BY <2>5, <2>7, <2>8
<1>7. CASE ListGone(s)
  BY <1>0, <1>7, DiesIInv DEF ListGone, TypeOK
<1>8. CASE Close(s)
  <2> USE DEF IInv, HalvesKnown, MarkedImage, CopyingIsMarked, OneCopies,
              RestoredHasNoHandler, RestoredIsMarked,
              RestoredTakesNoCheckpoint, Copying, Sources
  <2>1. /\ UNCHANGED <<process, files, lib, app, used>> /\ Goto(s, "finish")
        /\ Runs(s) /\ frames[s].pc = "save"
    BY <1>8 DEF Close
  <2>2. TypeOK'
    BY <1>0, <2>1, GotoTypes DEF TypeOK, process, files, app, PCs
  <2>3. /\ Steady(s) /\ frames'[s].pc = "finish"
        /\ frames'[s].resumed = frames[s].resumed /\ frames'[s].fd = frames[s].fd
    BY <1>0, <2>1, GotoIs DEF PCs
  <2>4. DeadIsBlank' /\ HalvesKnown' /\ MarkedImage'
    BY <2>1 DEF Runs, DeadIsBlank, process, files, app
  <2>5. /\ CopyingIsMarked' /\ OneCopies' /\ RestoredHasNoHandler'
        /\ RestoredIsMarked' /\ RestoredTakesNoCheckpoint'
    BY <2>1, <2>3 DEF process, Steady
  <2> QED BY <2>2, <2>4, <2>5
<1>9. CASE Finish(s)
  <2>1. /\ UNCHANGED <<process, files, app, used>> /\ Goto(s, "return")
        /\ Runs(s) /\ frames[s].pc = "finish" /\ lib' = ResumingLib
    BY <1>9 DEF Finish
  <2>2. lib' \in Libs
        /\ lib'.initialized = lib.initialized /\ lib'.lhInfo = lib.lhInfo
    BY <1>0, <2>1 DEF ResumingLib, Libs, States
  <2>3. TypeOK'
    BY <1>0, <2>1, <2>2, GotoTypes DEF TypeOK, process, files, app, PCs
  <2> QED BY <1>0, <2>1, <2>2, <2>3, GotoIs, MoveIInv DEF PCs, Copying
<1> QED
  BY <1>1, <1>2, <1>3, <1>4, <1>5, <1>6, <1>7, <1>8, <1>9 DEF HandlerStep
-----------------------------------------------------------------------------
(* So does every other step of the rank.                                   *)

\* Steps that leave the image, the activations, the state and what is known of
\* the lower half alone.
LEMMA AsideIInv ==
  ASSUME IInv, UNCHANGED <<process, img, frames>>, TypeOK',
         lib'.state = lib.state, alive,
         inCall' # NULL /\ inCall'.at \in {"unlink", "set"} =>
           lib'.lhInfo # NULL
  PROVE  IInv'
BY DEF IInv, process, DeadIsBlank, HalvesKnown, MarkedImage,
       CopyingIsMarked, OneCopies, RestoredHasNoHandler,
       RestoredIsMarked, RestoredTakesNoCheckpoint, Idle

\* A wrapper comes up, goes on, jumps or returns.
LEMMA WrapperIInv ==
  ASSUME IInv,
         \/ MpiCall \/ MmapCall \/ LibcCall \/ ReadInfo \/ UnlinkInfo
         \/ SetInitialized \/ Jump \/ LowerReturn
  PROVE  IInv'
<1>0. TypeOK /\ lib \in Libs /\ (lib.initialized => lib.lhInfo # NULL)
  BY DEF IInv, TypeOK
<1>1. /\ UNCHANGED <<process, img, frames, work, answer>> /\ alive
      /\ addrBin' \in {addrBin, NULL}
  BY DEF MpiCall, MmapCall, LibcCall, ReadInfo, UnlinkInfo, SetInitialized,
         Jump, LowerReturn, Enter, Lower, InWrapper, AppRuns, files
<1>2. used' \in [Events -> Nat]
  BY <1>0, SpendTypes
     DEF MpiCall, MmapCall, LibcCall, ReadInfo, UnlinkInfo, SetInitialized,
         Jump, LowerReturn, TypeOK, Events
<1>3. /\ lib' \in Libs /\ lib'.state = lib.state
      /\ lib'.initialized => lib'.lhInfo # NULL
      /\ inCall' \in Calls \cup {NULL}
      /\ fs' \in LowerHalves \cup {"upper"}
      /\ inCall' # NULL /\ inCall'.at \in {"unlink", "set"} => lib'.lhInfo # NULL
  <2>1. inCall \in Calls \cup {NULL} /\ fs \in LowerHalves \cup {"upper"}
        /\ addrBin \in LowerHalves \cup {NULL}
    BY <1>0 DEF TypeOK
  <2>2. CASE MpiCall \/ MmapCall
    <3>1. /\ lib' = lib /\ fs' = fs
          /\ \E kind \in {"mpi", "mmap"} :
               inCall' = [kind |-> kind, to |-> NULL,
                          at |-> IF lib.initialized THEN "jump" ELSE "read"]
      BY <2>2 DEF MpiCall, MmapCall, Enter
    <3> QED BY <1>0, <2>1, <3>1 DEF Calls
  <2>3. CASE ReadInfo
    <3>1. inCall \in Calls /\ lib' = [lib EXCEPT !.lhInfo = addrBin]
          /\ addrBin # NULL /\ inCall' = [inCall EXCEPT !.at = "unlink"]
          /\ fs' = fs
      BY <2>1, <2>3 DEF ReadInfo, InWrapper, InfoThere, GoOn
    <3> QED BY <1>0, <2>1, <3>1 DEF Calls, Libs
  <2>4. CASE UnlinkInfo
    <3>1. inCall \in Calls /\ lib' = lib /\ fs' = fs /\ inCall.at = "unlink"
          /\ inCall' = [inCall EXCEPT !.at = "set"] /\ inCall # NULL
      BY <2>1, <2>4 DEF UnlinkInfo, InWrapper, GoOn
    <3>2. lib.lhInfo # NULL
      BY <3>1 DEF IInv, HalvesKnown
    <3> QED BY <1>0, <2>1, <3>1, <3>2 DEF Calls
  <2>5. CASE SetInitialized
    <3>1. inCall \in Calls /\ lib' = [lib EXCEPT !.initialized = TRUE]
          /\ fs' = fs /\ inCall.at = "set" /\ inCall # NULL
          /\ inCall' = [inCall EXCEPT !.at = "jump"]
      BY <2>1, <2>5 DEF SetInitialized, InWrapper, GoOn
    <3>2. lib.lhInfo # NULL
      BY <3>1 DEF IInv, HalvesKnown
    <3> QED BY <1>0, <2>1, <3>1, <3>2 DEF Calls, Libs
  <2>6. CASE Jump
    <3>1. inCall \in Calls
          /\ lib' \in {lib, [lib EXCEPT !.mmapPtr = lib.lhInfo]}
          /\ Lower(inCall.kind, IF inCall.kind = "mmap" THEN lib'.mmapPtr
                                ELSE lib.lhInfo)
      BY <2>1, <2>6 DEF Jump, InWrapper
    <3>2. lib' \in Libs /\ lib'.state = lib.state /\ lib'.lhInfo = lib.lhInfo
          /\ lib'.initialized = lib.initialized
      BY <1>0, <3>1 DEF Libs
    <3>3. PICK to \in LowerHalves \cup {NULL} : Lower(inCall.kind, to)
      BY <1>0, <3>1, <3>2 DEF Libs
    <3> QED BY <1>0, <2>1, <3>1, <3>2, <3>3 DEF Calls, Lower, FsIn
  <2>7. CASE LibcCall
    <3>1. lib' = lib /\ Lower("libc", lib.jump)
      BY <2>7 DEF LibcCall
    <3> QED BY <1>0, <2>1, <3>1 DEF Calls, Lower, FsIn, Libs
  <2>8. CASE LowerReturn
    BY <1>0, <2>8 DEF LowerReturn
  <2> QED BY <2>2, <2>3, <2>4, <2>5, <2>6, <2>7, <2>8
<1>4. TypeOK'
  BY <1>0, <1>1, <1>2, <1>3 DEF TypeOK, process
<1> QED BY <1>1, <1>3, <1>4, AsideIInv

\* A checkpoint is asked for: a fresh activation appears.
LEMMA RequestIInv ==
  ASSUME IInv, DoCheckpoint \/ Signal
  PROVE  IInv'
<1>1. PICK s \in Sources : /\ Idle(s)
                           /\ frames' = [frames EXCEPT ![s] = NewFrame]
                           /\ s = "signal" => installed
  BY DEF DoCheckpoint, Signal, AppRuns, Sources
<1>2. UNCHANGED <<process, files, lib, inCall>> /\ alive
  BY DEF DoCheckpoint, Signal, AppRuns, app
<1>3. NewFrame.pc = "open" /\ NewFrame.resumed = "no"
  BY DEF NewFrame, NoFrame
<1>4. used' \in [Events -> Nat]
  BY SpendTypes DEF IInv, DoCheckpoint, Signal, Events
<1>5. TypeOK'
  BY <1>1, <1>2, <1>4, FrameTypes
     DEF IInv, TypeOK, DoCheckpoint, Signal, process, files, app
<1> QED
  BY <1>1, <1>2, <1>3, <1>5
     DEF IInv, TypeOK, process, files, DeadIsBlank, HalvesKnown,
         MarkedImage, CopyingIsMarked, OneCopies,
         RestoredHasNoHandler, RestoredIsMarked, RestoredTakesNoCheckpoint,
         Copying, Idle, Sources

\* An activation ends, or doCheckpoint reads the state before it does.
LEMMA ReturnIInv ==
  ASSUME IInv, SignalReturn \/ ReadState \/ ReturnToApp
  PROVE  IInv'
<1> USE DEF IInv, TypeOK, process, files, DeadIsBlank, HalvesKnown,
            MarkedImage, CopyingIsMarked, OneCopies,
            RestoredHasNoHandler, RestoredIsMarked, RestoredTakesNoCheckpoint,
            Copying, Idle, Sources
<1>1. CASE SignalReturn
  <2>1. TypeOK'
    BY <1>1, FrameTypes DEF SignalReturn, app
  <2> QED
    BY <1>1, <2>1 DEF SignalReturn, Runs, NoFrame, app
<1>2. CASE ReadState
  <2>1. frames' = [frames EXCEPT !["call"] =
                     [frames["call"] EXCEPT !.pc = "reset", !.temp = lib.state]]
    BY <1>2 DEF ReadState, Frames
  <2>2. [frames["call"] EXCEPT !.pc = "reset", !.temp = lib.state] \in Frames
    BY DEF Frames, PCs, Libs
  <2>3. TypeOK'
    BY <1>2, <2>1, <2>2 DEF ReadState, app
  <2> QED
    BY <1>2, <2>1, <2>2, <2>3 DEF ReadState, Runs, Frames, app
<1>3. CASE ReturnToApp
  <2>1. lib' \in Libs /\ lib'.initialized = lib.initialized
        /\ lib'.lhInfo = lib.lhInfo
    BY <1>3 DEF ReturnToApp, StateAfter, Libs, States
  <2>2. TypeOK'
    BY <1>3, <2>1, FrameTypes DEF ReturnToApp, Frames, app
  <2> QED
    BY <1>3, <2>1, <2>2 DEF ReturnToApp, Runs, NoFrame
<1> QED
  BY <1>1, <1>2, <1>3

LEMMA NextIInv == IInv /\ [Next]_vars => IInv'
<1> SUFFICES ASSUME IInv, [Next]_vars PROVE IInv'
  OBVIOUS
<1>1. CASE Work
  <2>1. TypeOK'
    BY <1>1, SpendTypes DEF Work, IInv, TypeOK, process, files, Events
  <2> QED
    BY <1>1, <2>1, AsideIInv DEF Work, AppRuns, files, IInv, HalvesKnown
<1>2. CASE MpiCall \/ MmapCall \/ LibcCall \/ ReadInfo \/ UnlinkInfo
           \/ SetInitialized \/ Jump \/ LowerReturn
  BY <1>2, WrapperIInv
<1>3. CASE ExitNoAddrBin \/ LowerGone \/ Crash \/ WorkGone
  BY <1>3, DiesIInv DEF ExitNoAddrBin, LowerGone, Crash, WorkGone, IInv, TypeOK
<1>4. CASE DoCheckpoint \/ Signal
  BY <1>4, RequestIInv
<1>5. CASE SignalKills
  BY <1>5, DiesIInv, SpendTypes DEF SignalKills, IInv, Events
<1>6. CASE \E s \in Sources : HandlerStep(s)
  BY <1>6, HandlerIInv
<1>7. CASE SignalReturn \/ ReadState \/ ReturnToApp
  BY <1>7, ReturnIInv
<1>8. CASE \E b \in LowerHalves : Launch(b) \/ Restore(b)
  BY <1>8, LaunchIInv, RestoreIInv
<1>9. CASE \E b \in LowerHalves : RestoreFails(b)
  <2>1. UNCHANGED <<process, img, lib, app, frames>>
        /\ addrBin' \in LowerHalves /\ used' \in [Events -> Nat]
    BY <1>9, SpendTypes DEF RestoreFails, IInv, Events
  <2>2. TypeOK'
    BY <2>1 DEF IInv, TypeOK, process, app
  <2> QED
    BY <2>1, <2>2
       DEF IInv, process, app, DeadIsBlank, HalvesKnown, MarkedImage,
           CopyingIsMarked, OneCopies, RestoredHasNoHandler,
           RestoredIsMarked, RestoredTakesNoCheckpoint, Idle
<1>10. CASE UNCHANGED vars
  <2>1. TypeOK'
    BY <1>10 DEF vars, IInv, TypeOK, process, files, app
  <2> QED
    BY <1>10, <2>1
       DEF vars, IInv, process, files, app, DeadIsBlank, HalvesKnown,
           MarkedImage, CopyingIsMarked, OneCopies, RestoredHasNoHandler,
           RestoredIsMarked, RestoredTakesNoCheckpoint, Idle
<1> QED
  BY <1>1, <1>2, <1>3, <1>4, <1>5, <1>6, <1>7, <1>8, <1>9, <1>10
     DEF Next, ThreadStep, WrapperStep
-----------------------------------------------------------------------------
(* What follows for every behaviour.                                       *)

THEOREM Invariance == Spec => []IInv
BY InitIInv, NextIInv, PTL DEF Spec

\* Every variable keeps its type (the state of checkpointHandler and of
\* libuhwrappers.so, the image, ./addr.bin), and wrappers that count as
\* initialised know a lower half.
THEOREM TypeCorrect == Spec => []TypeOK
<1>1. IInv => TypeOK
  BY DEF IInv
<1> QED
  BY <1>1, Invariance, PTL

\* Whatever SIGUSR2 interrupts, whatever fails and however often the process
\* dies: the image never holds a state other than POST_RESTART
\* (mem-ckpt.c:97-106).
THEOREM ImageIsMarked == Spec => []MarkedImage
<1>1. IInv => MarkedImage
  BY DEF IInv
<1> QED
  BY <1>1, Invariance, PTL

\* The activation that a restart comes back through takes the other branch,
\* and one below it that goes on copying reaches no image, also when SIGUSR2
\* had come between the test of the state and its change
\* (mem-ckpt.c:97-110, mem-restore.c:102-111).
THEOREM RestoredNeverCopies == Spec => []RestoredTakesNoCheckpoint
<1>1. IInv => RestoredTakesNoCheckpoint
  BY DEF IInv
<1> QED
  BY <1>1, Invariance, PTL
-----------------------------------------------------------------------------
(* doCheckpoint alone: no signal comes and no system call fails.           *)

Calm == SignalContexts = {} /\ Budget["fault"] = 0

Frame == frames["call"]
Restored == Frame.resumed # "no"

\* Control has come back from an image and has not gone on yet.
Back == Frame.pc = "opened" /\ Restored

NoSignals ==
  /\ frames["signal"].pc = "idle"
  /\ \A i \in DOMAIN img :
       /\ img[i].slot = "stack" => img[i].inCall = NULL
       /\ img[i].slot = "ctx" => img[i].via = "call"

NoCallInside == Frame.pc # "idle" => inCall = NULL

\* The two halves agree on the lower half that is loaded; after a restart as
\* soon as control has left the handler's first branch, and through every step
\* of initialize_wrappers.
Agree ==
  \/ lib.initialized /\ lib.lhInfo = lh
  \/ ~lib.initialized /\ addrBin = lh
CallAgrees ==
  /\ inCall.at = "read" => ~lib.initialized /\ addrBin = lh
  /\ inCall.at \in {"unlink", "set"} => lib.lhInfo = lh
  /\ inCall.at \in {"jump", "lower"} => Agree
Agreement ==
  alive => /\ Back => addrBin = lh
           /\ ~Back /\ inCall = NULL => Agree
           /\ inCall # NULL => CallAgrees

\* What the state says to the activation of doCheckpoint.
Told ==
  /\ Frame.pc = "open" => ~Restored
  /\ Frame.pc \in {"idle", "open"} \/ (Frame.pc = "opened" /\ ~Restored) =>
       lib.state # "POST_RESTART"
  /\ Frame.pc \in {"mark", "save", "finish"} => ~Restored
  /\ Frame.pc = "return" =>
       lib.state = IF Restored THEN "POST_RESTART" ELSE "POST_RESUME"
  /\ Frame.pc = "reset" =>
       Frame.temp = IF Restored THEN "POST_RESTART" ELSE "POST_RESUME"

CInv == IInv /\ NoSignals /\ NoCallInside /\ Agreement /\ Told

LEMMA InitCInv == Init => CInv
<1> SUFFICES ASSUME Init PROVE CInv
  OBVIOUS
<1>1. \A s \in Sources : frames[s].pc = "idle" /\ frames[s].resumed = "no"
  BY DEF Init, NoFrames, NoFrame
<1>2. lib.state = "RUNNING" /\ img = <<>> /\ ~alive /\ inCall = NULL
  BY DEF Init, NewLib
<1> QED
  BY <1>1, <1>2, InitIInv
     DEF CInv, NoSignals, NoCallInside, Agreement, Told, Frame, Back,
         Restored, Sources

\* The steps that are left.
CallStep ==
  \/ Open("call") \/ TestState("call") \/ Mark("call")
  \/ ResumeAfterRestart("call")
  \/ WriteBlock("call") \/ WriteNowhere("call") \/ SkipRegion("call")
  \/ Close("call") \/ Finish("call")
  \/ ReadState \/ ReturnToApp
AppStep ==
  \/ Work \/ MpiCall \/ MmapCall \/ LibcCall
  \/ ReadInfo \/ UnlinkInfo \/ SetInitialized \/ Jump \/ LowerReturn
  \/ DoCheckpoint
LifeStep ==
  \/ Dies /\ UNCHANGED used
  \/ \E b \in LowerHalves : Launch(b) \/ Restore(b) \/ RestoreFails(b)

LEMMA CalmNext ==
  ASSUME Calm, IInv, NoSignals, Next
  PROVE  CallStep \/ AppStep \/ LifeStep
<1>1. ~Spend("fault")
  <2>1. used["fault"] \in Nat
    BY DEF IInv, TypeOK, Events
  <2> QED BY <2>1 DEF Calm, Spend
<1>2. ~Signal /\ ~SignalKills
  BY DEF Calm, Signal, SignalKills
<1>3. ~SignalReturn /\ \A s \in Sources : HandlerStep(s) => s = "call"
  BY DEF NoSignals, SignalReturn, Runs, Idle, Sources, HandlerStep, Open,
         OpenFails, ContextFails, TestState, Mark, ResumeAfterRestart,
         SkipRegion, ListGone, WriteBlock, WriteNowhere, WriteFails, Saving,
         Close, Finish
<1>4. HandlerStep("call") => CallStep \/ LifeStep
  BY <1>1
     DEF HandlerStep, OpenFails, ContextFails, WriteFails, ListGone, CallStep,
         LifeStep
<1>5. ExitNoAddrBin \/ LowerGone \/ Crash \/ WorkGone => LifeStep
  BY DEF ExitNoAddrBin, LowerGone, Crash, WorkGone, LifeStep
<1>6. (\E b \in LowerHalves : Launch(b) \/ Restore(b) \/ RestoreFails(b)) =>
        LifeStep
  BY DEF LifeStep
<1>7. ThreadStep => CallStep \/ AppStep \/ LifeStep
  BY <1>3, <1>4, <1>5 DEF ThreadStep, WrapperStep, CallStep, AppStep
<1> QED BY <1>2, <1>5, <1>6, <1>7 DEF Next, AppStep

LEMMA LifeCInv ==
  ASSUME CInv, IInv', LifeStep
  PROVE  CInv'
<1> USE DEF NoSignals, NoCallInside, Agreement, Told, Frame, Back, Restored
<1>1. CASE Dies
  <2>1. \A s \in Sources : frames'[s].pc = "idle" /\ frames'[s].resumed = "no"
    BY <1>1 DEF Dies, NoFrames, NoFrame
  <2>2. lib'.state = "RUNNING" /\ img' = img /\ ~alive' /\ inCall' = NULL
    BY <1>1 DEF Dies, files, NewLib
  <2> QED BY <2>1, <2>2 DEF CInv, Sources
<1>2. ASSUME NEW b \in LowerHalves, Launch(b) PROVE CInv'
  <2>1. UNCHANGED <<img, app, frames>> /\ ~alive /\ addrBin' = b /\ lh' = b
    BY <1>2 DEF Launch
  <2>2. lib'.state = "RUNNING" /\ ~lib'.initialized
    BY <1>2 DEF Launch, NewLib
  <2>3. inCall' = NULL /\ frames = NoFrames
    BY <2>1 DEF CInv, IInv, DeadIsBlank, app
  <2>4. \A s \in Sources : frames[s].pc = "idle" /\ frames[s].resumed = "no"
    BY <2>3 DEF NoFrames, NoFrame
  <2> QED BY <2>1, <2>2, <2>3, <2>4 DEF CInv, Agree, Sources
<1>3. ASSUME NEW b \in LowerHalves, Restore(b) PROVE CInv'
  <2>1. /\ ComesUp /\ img' = img /\ addrBin' = b /\ lh' = b
        /\ inCall' = Detached(Saved("stack").inCall)
        /\ frames' = [s \in Sources |-> RestoredFrame(s)]
    BY <1>3 DEF Restore
  <2>2. img \in Seq(Blocks) /\ TypeOK
    BY DEF CInv, IInv, TypeOK
  <2>3. img[1].via = "call"
    BY <2>1, <2>2 DEF CInv, ComesUp
  <2>4. inCall' = NULL
    <3>1. Saved("stack").inCall = NULL
      BY <2>1, <2>2, SavedBlocks DEF CInv, ComesUp
    <3> QED BY <2>1, <3>1 DEF Detached
  <2>5. frames'["signal"].pc = "idle"
    BY <2>1, <2>3 DEF RestoredFrame, Sources, NoFrame
  <2>6. frames'["call"].pc = "opened" /\ frames'["call"].resumed = "ctx"
    <3> DEFINE f == Saved("stack").frames["call"]
    <3>1. f \in Frames
      BY <2>1, <2>2, ComesUpBlocks DEF StackBlocks, Sources
    <3>2. frames'["call"] =
            [f EXCEPT !.pc = "opened", !.next = 1, !.pos = 1, !.fd = FALSE,
                      !.resumed = "ctx"]
      BY <2>1, <2>3 DEF RestoredFrame, Sources
    <3> HIDE DEF f
    <3> QED BY <3>1, <3>2 DEF Frames
  <2> QED BY <2>1, <2>4, <2>5, <2>6 DEF CInv
<1>4. ASSUME NEW b \in LowerHalves, RestoreFails(b) PROVE CInv'
  <2>1. UNCHANGED <<process, img, lib, app, frames>> /\ ~alive
    BY <1>4 DEF RestoreFails
  <2> QED BY <2>1 DEF CInv, process, app
<1> QED BY <1>1, <1>2, <1>3, <1>4 DEF LifeStep

LEMMA AppCInv ==
  ASSUME CInv, IInv', AppStep
  PROVE  CInv'
<1> USE DEF NoSignals, NoCallInside, Agreement, Told, Frame, Back, Restored
<1>0. /\ lib \in Libs /\ frames \in [Sources -> Frames]
      /\ inCall \in Calls \cup {NULL}
  BY DEF CInv, IInv, TypeOK
<1>1. CASE Work
  <2>1. UNCHANGED <<process, files, lib, frames, inCall>> /\ alive
    BY <1>1 DEF Work, AppRuns
  <2> QED BY <2>1 DEF CInv, Agree, CallAgrees, process, files
<1>2. CASE MpiCall \/ MmapCall \/ LibcCall
  <2>1. AppRuns /\ UNCHANGED <<process, files, frames, lib>>
    BY <1>2 DEF MpiCall, MmapCall, LibcCall, Enter, Lower
  <2>2. Agree /\ frames["call"].pc = "idle" /\ alive
    BY <2>1 DEF CInv, AppRuns, Idle, Sources
  <2>3. /\ inCall' # NULL => inCall'.at \in {"read", "jump", "lower"}
        /\ inCall' # NULL /\ inCall'.at = "read" => ~lib.initialized
    BY <1>2 DEF MpiCall, MmapCall, LibcCall, Enter, Lower
  <2> QED BY <2>1, <2>2, <2>3 DEF CInv, Agree, CallAgrees, process, files
<1>3. CASE ReadInfo \/ UnlinkInfo \/ SetInitialized \/ Jump \/ LowerReturn
  <2>1. /\ UNCHANGED <<process, img, frames>> /\ alive
        /\ inCall # NULL /\ inCall \in Calls
    BY <1>0, <1>3
       DEF ReadInfo, UnlinkInfo, SetInitialized, Jump, LowerReturn, InWrapper,
           Lower, files
  <2>2. frames["call"].pc = "idle" /\ CallAgrees
    BY <2>1 DEF CInv
  <2>3. lib'.state = lib.state
    BY <1>0, <1>3
       DEF ReadInfo, UnlinkInfo, SetInitialized, Jump, LowerReturn, Libs
  <2>4. inCall' # NULL => CallAgrees'
    <3>1. CASE ReadInfo
      <4>1. /\ inCall.at = "read" /\ inCall'.at = "unlink"
            /\ lib'.lhInfo = addrBin /\ lh' = lh
        BY <1>0, <2>1, <3>1 DEF ReadInfo, InWrapper, GoOn, Calls, Libs, process
      <4> QED BY <2>2, <4>1 DEF CallAgrees
    <3>2. CASE UnlinkInfo
      <4>1. inCall.at = "unlink" /\ inCall'.at = "set" /\ lib' = lib /\ lh' = lh
        BY <2>1, <3>2 DEF UnlinkInfo, InWrapper, GoOn, Calls, process
      <4> QED BY <2>2, <4>1 DEF CallAgrees
    <3>3. CASE SetInitialized
      <4>1. /\ inCall.at = "set" /\ inCall'.at = "jump" /\ lh' = lh
            /\ lib'.lhInfo = lib.lhInfo /\ lib'.initialized
        BY <1>0, <2>1, <3>3
           DEF SetInitialized, InWrapper, GoOn, Calls, Libs, process
      <4> QED BY <2>2, <4>1 DEF CallAgrees, Agree
    <3>4. CASE Jump
      <4>1. /\ inCall.at = "jump" /\ inCall'.at = "lower" /\ lh' = lh
            /\ lib'.lhInfo = lib.lhInfo /\ lib'.initialized = lib.initialized
            /\ addrBin' = addrBin
        BY <1>0, <2>1, <3>4 DEF Jump, InWrapper, Lower, Libs, process, files
      <4> QED BY <2>2, <4>1 DEF CallAgrees, Agree
    <3> QED BY <1>3, <3>1, <3>2, <3>3, <3>4 DEF LowerReturn
  <2>5. inCall' = NULL => Agree'
    <3>1. CASE LowerReturn
      BY <2>2, <3>1 DEF LowerReturn, InWrapper, CallAgrees, Agree, process, files
    <3>2. CASE ~LowerReturn
      <4>1. inCall' \in Calls
        BY <1>0, <1>3, <2>1, <3>2, CallAssumption
           DEF ReadInfo, UnlinkInfo, SetInitialized, Jump, GoOn, Lower, Calls, Libs
      <4> QED BY <4>1, CallAssumption
    <3> QED BY <3>1, <3>2
  <2> QED BY <2>1, <2>2, <2>3, <2>4, <2>5 DEF CInv, process
<1>4. CASE DoCheckpoint
  <2>1. /\ UNCHANGED <<process, files, lib, inCall>> /\ AppRuns
        /\ frames' = [frames EXCEPT !["call"] = NewFrame]
    BY <1>4 DEF DoCheckpoint
  <2>2. frames["call"].pc = "idle" /\ alive /\ inCall = NULL
    BY <2>1 DEF AppRuns, Idle, Sources
  <2>3. /\ frames'["call"].pc = "open" /\ frames'["call"].resumed = "no"
        /\ frames'["signal"] = frames["signal"]
    BY <1>0, <2>1 DEF NewFrame, NoFrame, Sources
  <2> QED BY <2>1, <2>2, <2>3 DEF CInv, Agree, process, files
<1> QED BY <1>1, <1>2, <1>3, <1>4 DEF AppStep

LEMMA CallCInv ==
  ASSUME CInv, IInv', CallStep
  PROVE  CInv'
<1> USE DEF NoSignals, NoCallInside, Agreement, Told, Frame, Back, Restored
<1>0. /\ lib \in Libs /\ frames \in [Sources -> Frames] /\ TypeOK
      /\ frames["call"] \in Frames
  BY DEF CInv, IInv, TypeOK, Sources
<1>1. CASE Open("call")
  <2>1. /\ UNCHANGED <<process, addrBin, lib, app>> /\ img' = <<>> /\ alive
        /\ frames["call"].pc = "open"
        /\ frames' = [frames EXCEPT !["call"].pc = "opened", !["call"].fd = TRUE]
    BY <1>1 DEF Open, Runs, At
  <2>2. /\ frames'["call"].pc = "opened"
        /\ frames'["call"].resumed = frames["call"].resumed
        /\ frames'["signal"] = frames["signal"]
    BY <1>0, <2>1 DEF Frames, Sources
  <2>3. frames["call"].resumed = "no" /\ inCall = NULL
    BY <2>1 DEF CInv
  <2> QED BY <2>1, <2>2, <2>3 DEF CInv, Agree, process, app
<1>2. CASE TestState("call")
  <2>1. /\ UNCHANGED <<process, files, lib, app>> /\ alive
        /\ frames["call"].pc = "opened" /\ Goto("call", "mark")
        /\ lib.state # "POST_RESTART"
    BY <1>2 DEF TestState, Runs, At, FirstReturn
  <2>2. /\ frames'["call"].pc = "mark"
        /\ frames'["call"].resumed = frames["call"].resumed
        /\ frames'["signal"] = frames["signal"]
    BY <1>0, <2>1 DEF Goto, Frames, Sources
  <2>3. frames["call"].resumed = "no"
    BY <2>1 DEF CInv, IInv, RestoredIsMarked, Sources
  <2> QED BY <2>1, <2>2, <2>3 DEF CInv, Agree, process, app, files
<1>3. CASE Mark("call")
  <2>1. /\ UNCHANGED <<process, files, app>> /\ alive
        /\ frames["call"].pc = "mark" /\ Goto("call", "save")
        /\ lib' = MarkedLib
    BY <1>3 DEF Mark, Runs, At
  <2>2. /\ frames'["call"].pc = "save"
        /\ frames'["call"].resumed = frames["call"].resumed
        /\ frames'["signal"] = frames["signal"]
    BY <1>0, <2>1 DEF Goto, Frames, Sources
  <2>3. lib'.initialized = lib.initialized /\ lib'.lhInfo = lib.lhInfo
    BY <1>0, <2>1 DEF MarkedLib, Libs
  <2> QED BY <2>1, <2>2, <2>3 DEF CInv, Agree, process, app, files
<1>4. CASE ResumeAfterRestart("call")
  <2>1. /\ UNCHANGED <<process, files, app>> /\ alive
        /\ frames["call"].pc = "opened" /\ Goto("call", "return")
        /\ lib.state = "POST_RESTART" /\ lib' = ResetLib
    BY <1>4 DEF ResumeAfterRestart, Runs, At, FirstReturn
  <2>2. /\ frames'["call"].pc = "return"
        /\ frames'["call"].resumed = frames["call"].resumed
        /\ frames'["signal"] = frames["signal"]
    BY <1>0, <2>1 DEF Goto, Frames, Sources
  <2>3. frames["call"].resumed # "no" /\ inCall = NULL /\ addrBin = lh
    BY <2>1 DEF CInv
  <2>4. ~lib'.initialized /\ lib'.state = lib.state
    BY <1>0, <2>1 DEF ResetLib, Libs
  <2> QED BY <2>1, <2>2, <2>3, <2>4 DEF CInv, Agree, process, app, files
<1>5. CASE SkipRegion("call") \/ WriteBlock("call") \/ WriteNowhere("call")
  <2>1. /\ UNCHANGED <<process, addrBin, lib, app>> /\ alive
        /\ frames["call"].pc = "save" /\ Saving("call")
        /\ Advance("call", 0) \/ Advance("call", 1)
    BY <1>5
       DEF SkipRegion, WriteBlock, WriteNowhere, Saving, Runs, At, files
  <2>2. \A t \in Sources : /\ frames'[t].pc = frames[t].pc
                           /\ frames'[t].resumed = frames[t].resumed
    BY <1>0, <2>1, AdvanceTypes DEF Sources
  <2>3. inCall = NULL
    BY <2>1 DEF CInv
  <2>4. ASSUME NEW i \in DOMAIN img'
        PROVE  /\ img'[i].slot = "stack" => img'[i].inCall = NULL
               /\ img'[i].slot = "ctx" => img'[i].via = "call"
    <3>1. CASE img' = img
      BY <2>4, <3>1 DEF CInv
    <3>2. CASE img' # img
      <4>1. /\ Listed("call")
            /\ img' \in Put(img, frames["call"].pos, Block("call"))
        BY <1>5, <3>2 DEF SkipRegion, WriteBlock, WriteNowhere, files
      <4>2. /\ Block("call") \in Blocks
            /\ Block("call").slot = "stack" => Block("call").inCall = NULL
            /\ Block("call").slot = "ctx" => Block("call").via = "call"
        BY <1>0, <2>1, <2>3, <4>1, BlockType DEF Sources
      <4>3. \/ i \in DOMAIN img /\ img'[i] = img[i]
            \/ img'[i] = Block("call")
            \/ img'[i] = Torn
        <5>1. frames["call"].pos \in Nat \ {0} /\ img \in Seq(Blocks)
          BY <1>0 DEF Frames, TypeOK
        <5> QED BY <2>4, <4>1, <4>2, <5>1, PutBlocks
      <4> QED BY <4>2, <4>3, TornIsBlock DEF CInv
    <3> QED BY <3>1, <3>2
  <2> QED
    BY <2>1, <2>2, <2>3, <2>4 DEF CInv, Agree, process, app, Sources
<1>6. CASE Close("call")
  <2>1. /\ UNCHANGED <<process, files, lib, app>> /\ alive
        /\ frames["call"].pc = "save" /\ Goto("call", "finish")
    BY <1>6 DEF Close, Runs, At
  <2>2. /\ frames'["call"].pc = "finish"
        /\ frames'["call"].resumed = frames["call"].resumed
        /\ frames'["signal"] = frames["signal"]
    BY <1>0, <2>1 DEF Goto, Frames, Sources
  <2> QED BY <2>1, <2>2 DEF CInv, Agree, process, app, files
<1>7. CASE Finish("call")
  <2>1. /\ UNCHANGED <<process, files, app>> /\ alive
        /\ frames["call"].pc = "finish" /\ Goto("call", "return")
        /\ lib' = ResumingLib
    BY <1>7 DEF Finish, Runs, At
  <2>2. /\ frames'["call"].pc = "return"
        /\ frames'["call"].resumed = frames["call"].resumed
        /\ frames'["signal"] = frames["signal"]
    BY <1>0, <2>1 DEF Goto, Frames, Sources
  <2>3. frames["call"].resumed = "no"
    BY <2>1 DEF CInv
  <2>4. /\ lib'.initialized = lib.initialized /\ lib'.lhInfo = lib.lhInfo
        /\ lib'.state = "POST_RESUME"
    BY <1>0, <2>1 DEF ResumingLib, Libs
  <2> QED BY <2>1, <2>2, <2>3, <2>4 DEF CInv, Agree, process, app, files
<1>8. CASE ReadState
  <2>1. /\ UNCHANGED <<process, files, lib, app>> /\ alive
        /\ frames["call"].pc = "return"
        /\ frames' = [frames EXCEPT !["call"].pc = "reset",
                                    !["call"].temp = lib.state]
    BY <1>8 DEF ReadState, Runs, At
  <2>2. /\ frames'["call"].pc = "reset"
        /\ frames'["call"].resumed = frames["call"].resumed
        /\ frames'["call"].temp = lib.state
        /\ frames'["signal"] = frames["signal"]
    BY <1>0, <2>1 DEF Frames, Sources
  <2> QED BY <2>1, <2>2 DEF CInv, Agree, process, app, files
<1>9. CASE ReturnToApp
  <2>1. /\ UNCHANGED <<process, files, inCall>> /\ alive
        /\ frames["call"].pc = "reset"
        /\ lib' = [lib EXCEPT !.state = StateAfter(frames["call"].temp)]
        /\ frames' = [frames EXCEPT !["call"] = NoFrame]
    BY <1>9 DEF ReturnToApp, Runs, At
  <2>2. /\ frames'["call"].pc = "idle" /\ frames'["call"].resumed = "no"
        /\ frames'["signal"] = frames["signal"]
    BY <1>0, <2>1 DEF NoFrame, Sources
  <2>3. frames["call"].temp \in {"POST_RESTART", "POST_RESUME"}
    BY <2>1 DEF CInv
  <2>4. /\ lib'.initialized = lib.initialized /\ lib'.lhInfo = lib.lhInfo
        /\ lib'.state = "RUNNING"
    BY <1>0, <2>1, <2>3 DEF StateAfter, Libs
  <2> QED BY <2>1, <2>2, <2>4 DEF CInv, Agree, process, files
<1> QED
  BY <1>1, <1>2, <1>3, <1>4, <1>5, <1>6, <1>7, <1>8, <1>9 DEF CallStep

LEMMA NextCInv == Calm /\ CInv /\ [Next]_vars => CInv'
<1> SUFFICES ASSUME Calm, CInv, [Next]_vars PROVE CInv'
  OBVIOUS
<1>1. IInv'
  BY NextIInv DEF CInv
<1>2. CASE Next
  <2>1. CallStep \/ AppStep \/ LifeStep
    BY <1>2, CalmNext DEF CInv
  <2> QED BY <1>1, <2>1, LifeCInv, AppCInv, CallCInv
<1>3. CASE UNCHANGED vars
  BY <1>1, <1>3
     DEF vars, process, files, app, CInv, NoSignals, NoCallInside, Agreement,
         Agree, CallAgrees, Told, Frame, Back, Restored
<1> QED BY <1>2, <1>3

LEMMA CalmInvariance == Calm => (Spec => []CInv)
<1> SUFFICES ASSUME Calm PROVE Spec => []CInv
  OBVIOUS
<1>1. CInv /\ [Next]_vars => CInv'
  BY NextCInv
<1> QED BY <1>1, InitCInv, PTL DEF Spec

\* doCheckpoint alone, in any number of lives of the process and under any
\* builds of the lower half: whenever the application runs, its wrappers either
\* hold the lower half that is loaded or are going to read ./addr.bin, which
\* describes it (initialize_wrappers, reset_wrappers).
THEOREM WrappersStayUsable == Calm => (Spec => []WrappersUsable)
<1>1. CInv => WrappersUsable
  BY DEF CInv, Agreement, Agree, Frame, Back, WrappersUsable, AppRuns, Idle,
         Sources
<1> QED BY <1>1, CalmInvariance, PTL

\* The only step with which doCheckpoint returns.
LEMMA ReturnStep ==
  ASSUME Calm, CInv, [Next]_vars, CallReturns
  PROVE  ReturnToApp
<1>1. frames["call"].pc = "reset" /\ frames'["call"].pc = "idle" /\ alive'
  BY DEF CallReturns, At
<1>2. Next /\ frames \in [Sources -> Frames] /\ inCall = NULL
  BY <1>1 DEF vars, CInv, IInv, TypeOK, NoCallInside, Frame
<1>3. ~LifeStep
  <2>1. ~Dies
    BY <1>1 DEF Dies
  <2>2. alive
    BY <1>1 DEF CInv, IInv, DeadIsBlank, NoFrames, NoFrame, Sources
  <2> QED BY <2>1, <2>2 DEF LifeStep, Launch, Restore, RestoreFails
<1>4. ~AppStep
  BY <1>1, <1>2
     DEF AppStep, Work, MpiCall, MmapCall, LibcCall, Enter, ReadInfo,
         UnlinkInfo, SetInitialized, Jump, LowerReturn, InWrapper,
         DoCheckpoint, AppRuns, Idle, Sources
<1>5. CallStep
  BY <1>2, <1>3, <1>4, CalmNext DEF CInv
<1>6. CallStep => ReadState \/ ReturnToApp
  BY <1>1
     DEF CallStep, Open, TestState, Mark, ResumeAfterRestart, WriteBlock,
         WriteNowhere, SkipRegion, Saving, Close, Finish, At
<1>7. ~ReadState
  <2>1. ReadState => frames["call"].pc = "return"
    BY DEF ReadState, At
  <2> QED BY <1>1, <2>1
<1> QED BY <1>5, <1>6, <1>7

\* And what it returns is right (mem-ckpt.c:62-76, ckpt-restart.h:25-27).
THEOREM AnswersRightly == Calm => (Spec => AnswerMatchesCause)
<1> DEFINE Step == CallReturns => (answer' = "POST_RESTART" <=>
                                     frames["call"].resumed # "no")
<1>1. ASSUME Calm, CInv, [Next]_vars PROVE Step
  <2> SUFFICES ASSUME CallReturns
               PROVE  answer' = "POST_RESTART" <=> frames["call"].resumed # "no"
    OBVIOUS
  <2>1. ReturnToApp
    BY <1>1, ReturnStep
  <2> QED BY <1>1, <2>1 DEF ReturnToApp, At, CInv, Told, Frame, Restored
<1>2. Calm /\ CInv /\ [Next]_vars => [Step]_vars
  BY <1>1
<1>3. Calm => (Spec => [][Step]_vars)
  <2> SUFFICES ASSUME Calm PROVE Spec => [][Step]_vars
    OBVIOUS
  <2>1. CInv /\ [Next]_vars => [Step]_vars
    BY <1>2
  <2>2. Spec => []CInv
    BY CalmInvariance
  <2> HIDE DEF Step
  <2> QED BY <2>1, <2>2, PTL DEF Spec
<1> QED BY <1>3 DEF AnswerMatchesCause
-----------------------------------------------------------------------------
(* What is in the image when doCheckpoint says that it was taken.          *)

InHand == Frame.pc \in {"open", "opened", "mark", "save", "finish"} /\ ~Restored
Taken == Frame.pc \in {"finish", "return", "reset"} /\ ~Restored

\* The image after the first n - 1 of the slots: each at most once and nothing
\* else, memory that is missing left out.
SlotsBelow(n) ==
  \A i \in DOMAIN img : \E k \in 1 .. 4 : k < n /\ img[i].slot = Slots[k]
NoSlotTwice == \A i, j \in DOMAIN img : img[i].slot = img[j].slot => i = j
ContextFirst == Len(img) > 0 /\ img[1].slot = "ctx"
AllThere(n) ==
  \A k \in 2 .. 4 :
    k < n => \/ Slots[k] = "app" /\ work = LOST
             \/ \E i \in DOMAIN img : img[i].slot = Slots[k]
WorkIsPresent ==
  \A i \in DOMAIN img : img[i].slot = "app" => img[i].work = work /\ work # LOST
StackIsBusy ==
  \A i \in DOMAIN img :
    img[i].slot = "stack" => img[i].frames["call"].pc # "idle"
Written(n) ==
  /\ SlotsBelow(n) /\ NoSlotTwice /\ AllThere(n)
  /\ n > 1 => ContextFirst
  /\ WorkIsPresent /\ StackIsBusy

InOrder ==
  /\ InHand => lib.lhInfo # NULL
  /\ Frame.pc \in {"open", "opened", "mark"} /\ ~Restored =>
       Frame.next = 1 /\ Frame.pos = 1
  /\ Frame.pc \in {"opened", "mark"} /\ ~Restored => img = <<>> /\ Frame.fd
  /\ Frame.pc = "save" => /\ Written(Frame.next) /\ Frame.fd
                          /\ Frame.pos = Len(img) + 1
  /\ Taken => Written(5)

LEMMA RegionsHaveSlots == \A r \in RegionNames : \E k \in 2 .. 4 : Slots[k] = r
<1>1. /\ Slots[2] \in RegionNames /\ Slots[3] \in RegionNames
      /\ Slots[4] \in RegionNames
      /\ Slots[2] # Slots[3] /\ Slots[2] # Slots[4] /\ Slots[3] # Slots[4]
  BY SlotsAre
<1>2. \A r \in RegionNames : r = Slots[2] \/ r = Slots[3] \/ r = Slots[4]
  BY <1>1 DEF RegionNames
<1> QED BY <1>2

LEMMA PutAtEnd ==
  ASSUME NEW file \in Seq(Blocks), NEW b \in Blocks,
         NEW f \in Put(file, Len(file) + 1, b)
  PROVE  f = Append(file, b)
<1>1. Len(file) + 1 \in Nat \ {0} /\ ~(Len(file) + 1 <= Len(file))
  OBVIOUS
<1>2. Put(file, Len(file) + 1, b) = {Append(Before(file, Len(file) + 1), b)}
  BY <1>1 DEF Put
<1>3. Before(file, Len(file) + 1) = file
  <2>1. /\ Before(file, Len(file) + 1) \in Seq(Blocks)
        /\ Len(Before(file, Len(file) + 1)) = Len(file)
        /\ \A i \in 1 .. Len(file) : Before(file, Len(file) + 1)[i] = file[i]
    <3>1. PICK n \in Nat \ {0} : n = Len(file) + 1
      BY <1>1
    <3>2. n - 1 = Len(file)
      BY <3>1
    <3>3. /\ Before(file, n) \in Seq(Blocks) /\ Len(Before(file, n)) = n - 1
          /\ \A i \in 1 .. n - 1 :
               Before(file, n)[i] = IF i <= Len(file) THEN file[i] ELSE Torn
      BY BeforeIs
    <3>4. \A i \in 1 .. Len(file) : Before(file, n)[i] = file[i]
      BY <3>2, <3>3
    <3> QED BY <3>1, <3>2, <3>3, <3>4
  <2> QED BY <2>1, SeqEqual
<1> QED BY <1>2, <1>3

\* A block more, in the place of slot n.
LEMMA WrittenMore ==
  ASSUME TypeOK, NEW n \in 1 .. 4, Written(n), NEW b \in Blocks,
         img' = Append(img, b), work' = work, b.slot = Slots[n],
         n > 1 \/ img = <<>>,
         b.slot = "app" => b.work = work /\ work # LOST,
         b.slot = "stack" => b.frames["call"].pc # "idle"
  PROVE  Written(n + 1)'
<1>1. /\ Len(img') = Len(img) + 1 /\ DOMAIN img' = 1 .. Len(img) + 1
      /\ \A i \in DOMAIN img : img'[i] = img[i]
      /\ DOMAIN img = 1 .. Len(img) /\ Len(img) \in Nat
      /\ img'[Len(img) + 1] = b
  BY DEF TypeOK
<1>2. SlotsBelow(n + 1)'
  BY <1>1 DEF Written, SlotsBelow
<1>3. NoSlotTwice'
  <2>1. \A i \in DOMAIN img : img[i].slot # b.slot
    BY SlotsAre DEF Written, SlotsBelow
  <2> QED BY <1>1, <2>1 DEF Written, NoSlotTwice
<1>4. AllThere(n + 1)'
  <2> SUFFICES ASSUME NEW k \in 2 .. 4, k < n + 1
               PROVE  \/ Slots[k] = "app" /\ work' = LOST
                      \/ \E i \in DOMAIN img' : img'[i].slot = Slots[k]
    BY DEF AllThere
  <2>1. CASE k < n
    BY <1>1, <2>1 DEF Written, AllThere
  <2>2. CASE k = n
    BY <1>1, <2>2
  <2> QED BY <2>1, <2>2
<1>5. ContextFirst'
  <2>1. CASE n > 1
    BY <1>1, <2>1 DEF Written, ContextFirst
  <2>2. CASE n = 1
    BY <1>1, <2>2, SlotsAre DEF ContextFirst
  <2> QED BY <2>1, <2>2
<1>6. WorkIsPresent' /\ StackIsBusy'
  BY <1>1 DEF Written, WorkIsPresent, StackIsBusy
<1> QED BY <1>2, <1>3, <1>4, <1>5, <1>6 DEF Written

\* Memory that is not there needs none.
LEMMA WrittenSkipped ==
  ASSUME NEW n \in 2 .. 4, Written(n), Slots[n] = "app", work = LOST
  PROVE  Written(n + 1)
<1>1. SlotsBelow(n + 1)
  BY DEF Written, SlotsBelow
<1>2. AllThere(n + 1)
  BY DEF Written, AllThere
<1> QED BY <1>1, <1>2 DEF Written

LEMMA WrittenKept ==
  ASSUME NEW n, Written(n), img' = img, work' = work
  PROVE  Written(n)'
BY DEF Written, SlotsBelow, NoSlotTwice, AllThere, ContextFirst, WorkIsPresent,
       StackIsBusy

LEMMA WrittenNothing == img = <<>> => Written(1)
BY DEF Written, SlotsBelow, NoSlotTwice, AllThere, WorkIsPresent, StackIsBusy

\* An image that has everything brings back the present.
LEMMA WholeIsHeld ==
  ASSUME CInv, Written(5)
  PROVE  Held = work
<1>0. /\ img \in Seq(Blocks) /\ work \in Nat \cup {LOST} /\ Len(img) \in Nat
      /\ DOMAIN img = 1 .. Len(img)
  BY DEF CInv, IInv, TypeOK
<1>1. Len(img) > 0 /\ img[1].slot = "ctx" /\ img[1].via = "call"
  BY <1>0 DEF Written, ContextFirst, CInv, NoSignals
<1>2. ASSUME NEW r \in RegionNames PROVE Has(r) \/ (r = "app" /\ work = LOST)
  <2>1. PICK k \in 2 .. 4 : Slots[k] = r
    BY RegionsHaveSlots
  <2>2. CASE \E i \in DOMAIN img : img[i].slot = r
    <3>1. PICK i \in DOMAIN img : img[i].slot = r
      BY <2>2
    <3>2. i # 1
      BY <1>1, <3>1 DEF RegionNames
    <3>3. i \in 2 .. Len(img)
      BY <1>0, <3>1, <3>2
    <3>4. \E j \in 2 .. Len(img) : img[j].slot = r
      BY <3>1, <3>3
    <3> QED BY <3>4 DEF Has
  <2> QED BY <2>1, <2>2 DEF Written, AllThere
<1>3. \A i \in 2 .. Len(img) : img[i].slot \in RegionNames
  <2> TAKE i \in 2 .. Len(img)
  <2>1. i \in DOMAIN img /\ i # 1 /\ 1 \in DOMAIN img
    BY <1>0
  <2>2. img[i].slot # "ctx"
    BY <1>1, <2>1 DEF Written, NoSlotTwice
  <2>3. \E k \in 1 .. 4 : img[i].slot = Slots[k]
    BY <2>1 DEF Written, SlotsBelow
  <2> QED BY <2>2, <2>3, SlotsAre
<1>4. \A i, j \in 2 .. Len(img) : img[i].slot = img[j].slot => i = j
  BY <1>0 DEF Written, NoSlotTwice
<1>5. Has("lib") /\ Has("stack")
  BY <1>2 DEF RegionNames
<1>6. Saved("stack").frames["call"].pc # "idle"
  BY <1>0, <1>5, SavedBlocks DEF Written, StackIsBusy
<1>7. ComesUp
  BY <1>1, <1>3, <1>4, <1>5, <1>6 DEF ComesUp
<1>8. RestoredWork = work
  <2>1. CASE Has("app")
    BY <1>0, <2>1, SavedBlocks DEF RestoredWork, Written, WorkIsPresent
  <2>2. CASE ~Has("app")
    BY <1>2, <2>2 DEF RestoredWork, RegionNames
  <2> QED BY <2>1, <2>2
<1> QED BY <1>7, <1>8 DEF Held

LEMMA InOrderInit == Init => InOrder
<1> SUFFICES ASSUME Init PROVE InOrder
  OBVIOUS
<1>1. frames["call"].pc = "idle"
  BY DEF Init, NoFrames, NoFrame, Sources
<1> QED BY <1>1 DEF InOrder, InHand, Taken, Frame

\* One more slot is done.
LEMMA SaveInOrder ==
  ASSUME CInv, InOrder,
         SkipRegion("call") \/ WriteBlock("call") \/ WriteNowhere("call")
  PROVE  InOrder'
<1>0. /\ TypeOK /\ frames["call"] \in Frames /\ img \in Seq(Blocks)
  BY DEF CInv, IInv, TypeOK, Sources
<1>1. /\ UNCHANGED <<lib, app>> /\ Saving("call") /\ frames["call"].pc = "save"
      /\ Advance("call", 0) \/ Advance("call", 1)
  BY DEF SkipRegion, WriteBlock, WriteNowhere, Saving, At
<1> PICK n \in 1 .. 4 : n = frames["call"].next
  BY <1>0, <1>1 DEF Saving, Frames
<1>2. /\ frames'["call"].pc = "save" /\ frames'["call"].fd = frames["call"].fd
      /\ frames'["call"].resumed = frames["call"].resumed
      /\ frames'["call"].next = n + 1
  BY <1>0, <1>1, AdvanceTypes DEF Sources
<1>3. /\ frames["call"].resumed = "no" /\ lib.lhInfo # NULL /\ frames["call"].fd
      /\ Written(n) /\ frames["call"].pos = Len(img) + 1 /\ n \in 1 .. 4
  BY <1>0, <1>1
     DEF CInv, Told, Restored, Frame, InOrder, InHand, Saving, Frames
<1>4. Written(n + 1)' /\ frames'["call"].pos = Len(img') + 1
  <2>1. CASE SkipRegion("call")
    <3>1. Advance("call", 0) /\ img' = img /\ work' = work
          /\ Slot("call") = "app" /\ work = LOST
      BY <1>3, <2>1 DEF SkipRegion, Skipped, files, app
    <3>2. Slots[n] = "app" /\ n \in 2 .. 4
      BY <1>3, <3>1, SlotsAre DEF Slot
    <3>3. Written(n + 1)
      BY <1>3, <3>1, <3>2, WrittenSkipped
    <3>4. frames'["call"].pos = frames["call"].pos
      BY <1>0, <1>1, <3>1, AdvanceTypes DEF Sources, Frames
    <3> QED BY <1>3, <3>1, <3>3, <3>4, WrittenKept
  <2>2. CASE WriteBlock("call")
    <3>0. Advance("call", 1) /\ Listed("call") /\ work' = work
          /\ img' \in Put(img, Len(img) + 1, Block("call"))
      BY <1>3, <2>2 DEF WriteBlock, app
    <3>2. PICK b \in Blocks :
            /\ b = Block("call") /\ b.slot = Slots[n]
            /\ b.slot = "app" => b.work = work
            /\ b.slot = "stack" => b.frames = frames
      BY <1>0, <1>1, <3>0, BlockType DEF Sources, Slot
    <3>1. Advance("call", 1) /\ Listed("call") /\ work' = work
          /\ img' \in Put(img, Len(img) + 1, b)
      BY <3>0, <3>2
    <3>3. b.slot = "app" => work # LOST
      BY <3>1, <3>2 DEF Listed, Skipped, Slot
    <3>4. img' = Append(img, b)
      BY <1>0, <3>1, <3>2, PutAtEnd
    <3>5. n = 1 => img = <<>>
      <4> SUFFICES ASSUME n = 1 PROVE img = <<>>
        OBVIOUS
      <4>1. ASSUME NEW i \in DOMAIN img PROVE FALSE
        <5>1. SlotsBelow(1)
          BY <1>3 DEF Written
        <5> QED BY <5>1 DEF SlotsBelow
      <4>2. Len(img) = 0
        <5>1. Len(img) \in Nat /\ DOMAIN img = 1 .. Len(img)
          BY <1>0
        <5>2. Len(img) > 0 => 1 \in DOMAIN img
          BY <5>1
        <5> QED BY <4>1, <5>1, <5>2
      <4> QED BY <1>0, <4>2, EmptySeq
    <3>6. frames'["call"].pos = frames["call"].pos + 1
      BY <1>0, <1>1, <3>1, AdvanceTypes DEF Sources
    <3>7. n > 1 \/ img = <<>>
      BY <1>3, <3>5
    <3>8. b.slot = "stack" => b.frames["call"].pc # "idle"
      BY <1>1, <3>2
    <3>9. Written(n + 1)'
      BY <1>0, <1>3, <3>1, <3>2, <3>3, <3>4, <3>7, <3>8, WrittenMore
    <3>10. Len(img') = Len(img) + 1
      BY <1>0, <3>2, <3>4
    <3> QED BY <1>3, <3>6, <3>9, <3>10
  <2>3. ~WriteNowhere("call")
    BY <1>3 DEF WriteNowhere
  <2> QED BY <2>1, <2>2, <2>3
<1> QED
  BY <1>1, <1>2, <1>3, <1>4 DEF InOrder, InHand, Taken, Frame, Restored

LEMMA CallInOrder ==
  ASSUME CInv, InOrder, CallStep
  PROVE  InOrder'
<1> USE DEF InOrder, InHand, Taken, Frame, Restored
<1>0. /\ lib \in Libs /\ frames \in [Sources -> Frames] /\ TypeOK
      /\ frames["call"] \in Frames
  BY DEF CInv, IInv, TypeOK, Sources
<1>1. CASE Open("call")
  <2>1. /\ UNCHANGED lib /\ frames["call"].pc = "open" /\ img' = <<>>
        /\ frames' = [frames EXCEPT !["call"].pc = "opened", !["call"].fd = TRUE]
    BY <1>1 DEF Open, At
  <2>2. frames'["call"] = [frames["call"] EXCEPT !.pc = "opened", !.fd = TRUE]
    BY <1>0, <2>1 DEF Sources
  <2> QED BY <1>0, <2>1, <2>2 DEF Frames
<1>2. CASE TestState("call")
  <2>1. /\ UNCHANGED <<lib, img>> /\ frames["call"].pc = "opened"
        /\ Goto("call", "mark")
    BY <1>2 DEF TestState, At, files
  <2>2. frames'["call"] = [frames["call"] EXCEPT !.pc = "mark"]
    BY <1>0, <2>1 DEF Goto, Sources
  <2> QED BY <1>0, <2>1, <2>2 DEF Frames
<1>3. CASE Mark("call")
  <2>1. /\ UNCHANGED <<img, work>> /\ frames["call"].pc = "mark"
        /\ lib' = MarkedLib /\ Goto("call", "save")
    BY <1>3 DEF Mark, At, files, app
  <2>2. frames'["call"] = [frames["call"] EXCEPT !.pc = "save"]
    BY <1>0, <2>1 DEF Goto, Sources
  <2>3. lib'.lhInfo = lib.lhInfo
    BY <1>0, <2>1 DEF MarkedLib, Libs
  <2>4. /\ frames["call"].resumed = "no" /\ img = <<>> /\ Written(1)
        /\ frames["call"].next = 1 /\ frames["call"].pos = 1
        /\ frames["call"].fd /\ lib.lhInfo # NULL
    BY <2>1, WrittenNothing DEF CInv, Told
  <2>5. Written(1)'
    BY <2>1, <2>4, WrittenKept
  <2>6. Len(img') + 1 = 1
    BY <2>1, <2>4
  <2> QED BY <1>0, <2>2, <2>3, <2>4, <2>5, <2>6 DEF Frames
<1>4. CASE ResumeAfterRestart("call")
  <2>1. /\ frames["call"].pc = "opened" /\ lib.state = "POST_RESTART"
        /\ Goto("call", "return")
    BY <1>4 DEF ResumeAfterRestart, At, FirstReturn
  <2>2. frames'["call"] = [frames["call"] EXCEPT !.pc = "return"]
    BY <1>0, <2>1 DEF Goto, Sources
  <2>3. frames["call"].resumed # "no"
    BY <2>1 DEF CInv, Told
  <2> QED BY <1>0, <2>2, <2>3 DEF Frames
<1>5. CASE SkipRegion("call") \/ WriteBlock("call") \/ WriteNowhere("call")
  BY <1>5, SaveInOrder
<1>6. CASE Close("call")
  <2>1. /\ UNCHANGED <<img, lib, work>> /\ frames["call"].pc = "save"
        /\ frames["call"].next > 4 /\ Goto("call", "finish")
    BY <1>6 DEF Close, At, AllSaved, files, app
  <2>2. frames'["call"] = [frames["call"] EXCEPT !.pc = "finish"]
    BY <1>0, <2>1 DEF Goto, Sources
  <2>3. /\ frames["call"].resumed = "no" /\ frames["call"].next = 5
        /\ lib.lhInfo # NULL /\ Written(5)
    BY <1>0, <2>1 DEF CInv, Told, Frames
  <2>4. Written(5)'
    BY <2>1, <2>3, WrittenKept
  <2> QED BY <1>0, <2>1, <2>2, <2>3, <2>4 DEF Frames
<1>7. CASE Finish("call")
  <2>1. /\ UNCHANGED <<img, work>> /\ frames["call"].pc = "finish"
        /\ Goto("call", "return")
    BY <1>7 DEF Finish, At, files, app
  <2>2. frames'["call"] = [frames["call"] EXCEPT !.pc = "return"]
    BY <1>0, <2>1 DEF Goto, Sources
  <2>3. Written(5)'
    BY <2>1, WrittenKept DEF CInv, Told
  <2> QED BY <1>0, <2>2, <2>3 DEF Frames
<1>8. CASE ReadState
  <2>1. /\ UNCHANGED <<img, work>> /\ frames["call"].pc = "return"
        /\ frames' = [frames EXCEPT !["call"].pc = "reset",
                                    !["call"].temp = lib.state]
    BY <1>8 DEF ReadState, At, files, app
  <2>2. /\ frames'["call"].pc = "reset"
        /\ frames'["call"].resumed = frames["call"].resumed
    BY <1>0, <2>1 DEF Frames, Sources
  <2>3. frames["call"].resumed = "no" => Written(5)'
    BY <2>1, WrittenKept
  <2> QED BY <2>2, <2>3
<1>9. CASE ReturnToApp
  <2>1. frames'["call"].pc = "idle"
    BY <1>0, <1>9 DEF ReturnToApp, NoFrame, Sources
  <2> QED BY <2>1
<1> QED
  BY <1>1, <1>2, <1>3, <1>4, <1>5, <1>6, <1>7, <1>8, <1>9 DEF CallStep

LEMMA InOrderNext ==
  Calm /\ ~EarlyRequests /\ CInv /\ InOrder /\ [Next]_vars => InOrder'
<1> SUFFICES ASSUME Calm, ~EarlyRequests, CInv, InOrder, [Next]_vars
             PROVE  InOrder'
  OBVIOUS
<1> USE DEF InOrder, InHand, Taken, Frame, Restored
<1>0. frames \in [Sources -> Frames] /\ TypeOK
  BY DEF CInv, IInv, TypeOK
<1>1. CASE CallStep
  BY <1>1, CallInOrder
<1>2. CASE AppStep
  <2>1. CASE DoCheckpoint
    <3>1. frames' = [frames EXCEPT !["call"] = NewFrame] /\ lib' = lib
          /\ lib.lhInfo # NULL
      BY <2>1 DEF DoCheckpoint, Requestable
    <3>2. /\ frames'["call"] = NewFrame
          /\ NewFrame.pc = "open" /\ NewFrame.next = 1 /\ NewFrame.pos = 1
      BY <1>0, <3>1 DEF NewFrame, NoFrame, Sources
    <3> QED BY <3>1, <3>2
  <2>2. CASE ~DoCheckpoint
    <3>1. frames["call"].pc = "idle"
      <4>1. AppRuns \/ (alive /\ inCall # NULL)
        BY <1>2, <2>2
           DEF AppStep, Work, MpiCall, MmapCall, LibcCall, Enter, ReadInfo,
               UnlinkInfo, SetInitialized, Jump, LowerReturn, InWrapper
      <4> QED BY <4>1 DEF AppRuns, Idle, Sources, CInv, NoCallInside
    <3>2. frames' = frames
      BY <1>2, <2>2
         DEF AppStep, Work, MpiCall, MmapCall, LibcCall, Enter, ReadInfo,
             UnlinkInfo, SetInitialized, Jump, Lower, LowerReturn
    <3> QED BY <3>1, <3>2
  <2> QED BY <2>1, <2>2
<1>3. CASE LifeStep
  <2>1. CASE Dies
    <3>1. frames'["call"].pc = "idle"
      BY <2>1 DEF Dies, NoFrames, NoFrame, Sources
    <3> QED BY <3>1
  <2>2. ASSUME NEW b \in LowerHalves, Restore(b) PROVE InOrder'
    <3>1. frames' = [s \in Sources |-> RestoredFrame(s)] /\ ComesUp
      BY <2>2 DEF Restore
    <3>2. img[1].via = "call" /\ img \in Seq(Blocks)
      BY <1>0, <3>1 DEF ComesUp, CInv, NoSignals, TypeOK
    <3>3. frames'["call"].pc = "opened" /\ frames'["call"].resumed = "ctx"
      <4> DEFINE f == Saved("stack").frames["call"]
      <4>1. f \in Frames
        BY <3>1, <3>2, ComesUpBlocks DEF StackBlocks, Sources
      <4>2. frames'["call"] =
              [f EXCEPT !.pc = "opened", !.next = 1, !.pos = 1, !.fd = FALSE,
                        !.resumed = "ctx"]
        BY <3>1, <3>2 DEF RestoredFrame, Sources
      <4> HIDE DEF f
      <4> QED BY <4>1, <4>2 DEF Frames
    <3> QED BY <3>3
  <2>3. ASSUME NEW b \in LowerHalves, Launch(b) \/ RestoreFails(b)
        PROVE  InOrder'
    <3>1. frames["call"].pc = "idle" /\ frames' = frames
      BY <2>3
         DEF Launch, RestoreFails, CInv, IInv, DeadIsBlank, NoFrames, NoFrame,
             Sources
    <3> QED BY <3>1
  <2> QED BY <1>3, <2>1, <2>2, <2>3 DEF LifeStep
<1>4. CASE UNCHANGED vars
  <2>1. UNCHANGED <<img, work, frames, lib>>
    BY <1>4 DEF vars, files, app
  <2>2. \A n \in 1 .. 5 : Written(n) => Written(n)'
    BY <2>1, WrittenKept
  <2>3. frames["call"].next \in 1 .. 5
    BY <1>0 DEF Sources, Frames
  <2> QED BY <2>1, <2>2, <2>3
<1>5. CASE Next
  <2>1. CallStep \/ AppStep \/ LifeStep
    BY <1>5, CalmNext DEF CInv
  <2> QED BY <1>1, <1>2, <1>3, <2>1
<1> QED BY <1>4, <1>5

\* When doCheckpoint returns POST_RESUME, the image is one that a process comes
\* up from, and what it brings back is the present.
THEOREM ReportedImagesAreWhole ==
  Calm /\ ~EarlyRequests => (Spec => ReportedImageHoldsWork)
<1> DEFINE Step == CallReturns /\ answer' = "POST_RESUME" => Held = work
<1>1. ASSUME Calm, CInv, InOrder, [Next]_vars PROVE Step
  <2> SUFFICES ASSUME CallReturns, answer' = "POST_RESUME" PROVE Held = work
    OBVIOUS
  <2>1. ReturnToApp
    BY <1>1, ReturnStep
  <2>2. frames["call"].resumed = "no" /\ frames["call"].pc = "reset"
    BY <1>1, <2>1 DEF ReturnToApp, At, CInv, Told, Frame, Restored
  <2>3. Written(5)
    BY <1>1, <2>2 DEF InOrder, Taken, Frame, Restored
  <2> QED BY <1>1, <2>3, WholeIsHeld
<1>2. Calm /\ CInv /\ InOrder /\ [Next]_vars => [Step]_vars
  BY <1>1
<1>3. Calm /\ ~EarlyRequests => (Spec => [][Step]_vars)
  <2> SUFFICES ASSUME Calm, ~EarlyRequests PROVE Spec => [][Step]_vars
    OBVIOUS
  <2>1. CInv /\ InOrder /\ [Next]_vars => [Step]_vars
    BY <1>2
  <2>2. CInv /\ InOrder /\ [Next]_vars => InOrder'
    BY InOrderNext
  <2>3. Spec => []CInv
    BY CalmInvariance
  <2> HIDE DEF Step
  <2> QED BY <2>1, <2>2, <2>3, InOrderInit, PTL DEF Spec
<1> QED BY <1>3 DEF ReportedImageHoldsWork
-----------------------------------------------------------------------------
(* CkptRestart implements CheckpointStore: whatever is interrupted, fails  *)
(* or dies, what a process comes back with is the progress that the image  *)
(* counted as holding; that is the present of the process that wrote it,   *)
(* or none when the image ends before the memory it is in.                 *)

\* The application does not run while an image is written, so whatever the
\* handlers have written holds the present.
WrittenIsPresent ==
  (\E s \in Sources : frames[s].fd) =>
    \A i \in DOMAIN img : img[i].slot = "app" => img[i].work = work

IdleIsClosed == \A s \in Sources : frames[s].pc = "idle" => ~frames[s].fd

DeadHasNoWork == ~alive => work = 0

StoreInv == IInv /\ WrittenIsPresent /\ IdleIsClosed /\ DeadHasNoWork

\* What a restart would bring back of an image that is being written.
HeldIsPresent ==
  (\E s \in Sources : frames[s].fd) => Held \in {NULL, LOST, work}

LEMMA InitStoreInv == Init => StoreInv
BY InitIInv
   DEF Init, StoreInv, WrittenIsPresent, IdleIsClosed, DeadHasNoWork, NoFrames,
       NoFrame, Sources

LEMMA HandlerStoreInv ==
  ASSUME StoreInv, NEW s \in Sources, HandlerStep(s)
  PROVE  WrittenIsPresent' /\ IdleIsClosed' /\ DeadHasNoWork'
<1>0. TypeOK /\ frames \in [Sources -> Frames]
  BY DEF StoreInv, IInv, TypeOK
<1> USE DEF WrittenIsPresent, IdleIsClosed, DeadHasNoWork
<1>1. CASE Dies
  BY <1>1 DEF Dies, NoFrames, NoFrame, files
<1>2. CASE Open(s)
  <2>1. /\ img' = <<>> /\ UNCHANGED <<process, app>> /\ alive
        /\ frames' = [frames EXCEPT ![s] =
             [frames[s] EXCEPT !.pc = "opened", !.fd = TRUE]]
    BY <1>0, <1>2 DEF Open, Runs, Frames
  <2>2. frames'[s].pc = "opened" /\ \A t \in Sources : t # s => frames'[t] = frames[t]
    BY <1>0, <2>1 DEF Frames
  <2> QED BY <2>1, <2>2 DEF StoreInv, process, app
<1>3. CASE OpenFails(s) \/ ContextFails(s) \/ TestState(s) \/ Mark(s)
           \/ ResumeAfterRestart(s) \/ Close(s) \/ Finish(s)
  <2>1. UNCHANGED <<process, files, app>> /\ alive
    BY <1>3 DEF OpenFails, ContextFails, TestState, Mark, ResumeAfterRestart,
                Close, Finish, Runs
  <2>2. PICK pc \in PCs \ {"idle"} : Goto(s, pc)
    BY <1>3 DEF OpenFails, ContextFails, TestState, Mark, ResumeAfterRestart,
                Close, Finish, PCs
  <2>3. /\ Steady(s) /\ frames'[s].pc # "idle"
        /\ frames'[s].fd = frames[s].fd
    BY <1>0, <2>2, GotoIs
  <2> QED BY <2>1, <2>3 DEF StoreInv, process, files, app, Steady
<1>4. CASE SkipRegion(s) \/ WriteNowhere(s) \/ WriteBlock(s) \/ WriteFails(s)
  <2>1. /\ UNCHANGED <<process, app>> /\ Saving(s) /\ alive
        /\ \E n \in {0, 1} : Advance(s, n)
    BY <1>4 DEF SkipRegion, WriteNowhere, WriteBlock, WriteFails, Saving, Runs
  <2>2. \A t \in Sources : /\ frames'[t].pc = frames[t].pc
                           /\ frames'[t].fd = frames[t].fd
    BY <1>0, <2>1, AdvanceTypes
  <2>3. \/ img' = img
        \/ /\ frames[s].fd
           /\ \A i \in DOMAIN img' : img'[i].slot = "app" =>
                \/ i \in DOMAIN img /\ img'[i] = img[i]
                \/ img'[i].work = work
    <3>1. frames[s].pos \in Nat \ {0} /\ img \in Seq(Blocks)
      BY <1>0 DEF TypeOK, Frames
    <3>2. CASE WriteBlock(s)
      <4>1. Listed(s) /\ frames[s].fd /\ img' \in Put(img, frames[s].pos, Block(s))
        BY <3>2 DEF WriteBlock
      <4>2. \A i \in DOMAIN img' : \/ i \in DOMAIN img /\ img'[i] = img[i]
                                   \/ img'[i] = Block(s)
                                   \/ img'[i] = Torn
        BY <1>0, <2>1, <3>1, <4>1, BlockType, PutBlocks
      <4> QED BY <1>0, <2>1, <4>1, <4>2, BlockType, TornIsBlock
    <3>3. CASE WriteFails(s) /\ img' # img
      <4>1. frames[s].fd /\ img' \in Put(img, frames[s].pos, Torn)
        BY <3>3 DEF WriteFails
      <4>2. \A i \in DOMAIN img' : \/ i \in DOMAIN img /\ img'[i] = img[i]
                                   \/ img'[i] = Torn
        BY <3>1, <4>1, TornIsBlock, PutBlocks
      <4> QED BY <4>1, <4>2, TornIsBlock
    <3> QED BY <1>4, <3>2, <3>3 DEF SkipRegion, WriteNowhere, files
  <2>4. WrittenIsPresent'
    BY <2>1, <2>2, <2>3 DEF StoreInv, app
  <2> QED BY <2>1, <2>2, <2>4 DEF StoreInv, process
<1> QED
  BY <1>1, <1>2, <1>3, <1>4 DEF HandlerStep, ListGone

LEMMA NextStoreInv == StoreInv /\ [Next]_vars => StoreInv'
<1> SUFFICES ASSUME StoreInv, [Next]_vars
             PROVE  WrittenIsPresent' /\ IdleIsClosed' /\ DeadHasNoWork'
  BY NextIInv DEF StoreInv
<1>0. TypeOK /\ frames \in [Sources -> Frames]
  BY DEF StoreInv, IInv, TypeOK
<1> USE DEF WrittenIsPresent, IdleIsClosed, DeadHasNoWork, Sources, Idle
<1>1. CASE Work
  <2>1. AppRuns /\ UNCHANGED <<process, files, frames>>
    BY <1>1 DEF Work
  <2>2. \A s \in Sources : ~frames[s].fd
    BY <2>1 DEF AppRuns, StoreInv
  <2> QED BY <2>1, <2>2 DEF AppRuns, StoreInv, process
<1>2. CASE MpiCall \/ MmapCall \/ LibcCall \/ ReadInfo \/ UnlinkInfo
           \/ SetInitialized \/ Jump \/ LowerReturn
  <2>1. UNCHANGED <<process, img, frames, work>>
    BY <1>2 DEF MpiCall, MmapCall, LibcCall, ReadInfo, UnlinkInfo,
                SetInitialized, Jump, LowerReturn, Enter, Lower, files
  <2> QED BY <2>1 DEF StoreInv, process
<1>3. CASE Dies
  BY <1>3 DEF Dies, NoFrames, NoFrame
<1>4. CASE DoCheckpoint \/ Signal
  <2>1. PICK s \in Sources : frames' = [frames EXCEPT ![s] = NewFrame]
    BY <1>4 DEF DoCheckpoint, Signal
  <2>2. NewFrame.pc = "open" /\ ~NewFrame.fd
    BY DEF NewFrame, NoFrame
  <2>3. UNCHANGED <<process, img, work>>
    BY <1>4 DEF DoCheckpoint, Signal, files, app
  <2>4. \A t \in Sources : frames'[t] = frames[t] \/ frames'[t] = NewFrame
    BY <1>0, <2>1
  <2> QED BY <2>2, <2>3, <2>4 DEF StoreInv, process
<1>5. CASE \E s \in Sources : HandlerStep(s)
  BY <1>5, HandlerStoreInv
<1>6. CASE SignalReturn \/ ReadState \/ ReturnToApp
  <2>1. \A s \in Sources : \/ frames'[s].fd = frames[s].fd
                              /\ frames'[s].pc \in {frames[s].pc, "reset"}
                           \/ ~frames'[s].fd
    BY <1>0, <1>6 DEF SignalReturn, ReadState, ReturnToApp, NoFrame, Frames
  <2>2. UNCHANGED <<process, img, work>>
    BY <1>6 DEF SignalReturn, ReadState, ReturnToApp, files, app
  <2> QED BY <2>1, <2>2 DEF StoreInv, process
<1>7. CASE \E b \in LowerHalves : Launch(b) \/ RestoreFails(b)
  BY <1>7 DEF Launch, RestoreFails, app, process, StoreInv
<1>8. CASE \E b \in LowerHalves : Restore(b)
  <2>1. /\ ComesUp /\ alive' /\ frames' = [s \in Sources |-> RestoredFrame(s)]
    BY <1>8 DEF Restore
  <2>2. \A s \in Sources : ~frames'[s].fd
    BY <1>0, <2>1, RestoredFrames
  <2> QED BY <2>1, <2>2
<1>9. CASE UNCHANGED vars
  BY <1>9 DEF vars, process, files, app, StoreInv
<1> QED
  BY <1>1, <1>2, <1>3, <1>4, <1>5, <1>6, <1>7, <1>8, <1>9
     DEF Next, ThreadStep, WrapperStep, ExitNoAddrBin, LowerGone, Crash,
         WorkGone, SignalKills

LEMMA StoreInvHeld == StoreInv => HeldIsPresent
<1> SUFFICES ASSUME StoreInv, NEW s \in Sources, frames[s].fd
             PROVE  Held \in {NULL, LOST, work}
  BY DEF HeldIsPresent
<1>1. img \in Seq(Blocks)
  BY DEF StoreInv, IInv, TypeOK
<1>2. Has("app") => Saved("app").work = work
  BY <1>1, SavedBlocks DEF StoreInv, WrittenIsPresent
<1> QED BY <1>2 DEF Held, RestoredWork
-----------------------------------------------------------------------------
(* Every step of the rank is a step of the store, or no step of it.        *)

\* A step that changes neither life, progress nor image is invisible.
LEMMA QuietStep ==
  ASSUME UNCHANGED <<alive, installed, work, img>>
  PROVE  UNCHANGED Store!vars
BY DEF Store!vars, Held, ComesUp, RestoredWork, Has, Saved

\* The death of a process stops the store's process and alters no checkpoint.
LEMMA StopStep ==
  ASSUME alive, Dies
  PROVE  Store!Stop
<1>1. UNCHANGED Held
  BY DEF Dies, files, Held, ComesUp, RestoredWork, Has, Saved
<1> QED BY <1>1 DEF Store!Stop, Dies

\* A write, or a truncation, gives up the checkpoint, makes one of the
\* present, whole or cut, or makes no difference.
LEMMA WriteStep ==
  ASSUME alive, UNCHANGED <<alive, installed, work>>,
         Held' \in {NULL, LOST, work}
  PROVE  [Store!Next]_(Store!vars)
<1>1. CASE Held' # NULL
  <2>1. Store!Save
    BY <1>1 DEF Store!Save
  <2> QED
    BY <2>1 DEF Store!Next
<1>2. CASE Held' = NULL /\ Held # NULL
  <2>1. Store!Discard
    BY <1>2 DEF Store!Discard
  <2> QED
    BY <2>1 DEF Store!Next
<1>3. CASE Held' = NULL /\ Held = NULL
  BY <1>3 DEF Store!vars
<1> QED
  BY <1>1, <1>2, <1>3

LEMMA HandlerStoreStep ==
  ASSUME StoreInv, HeldIsPresent', NEW s \in Sources, HandlerStep(s)
  PROVE  [Store!Next]_(Store!vars)
<1>0. TypeOK /\ frames \in [Sources -> Frames]
  BY DEF StoreInv, IInv, TypeOK
<1>1. CASE Open(s)
  <2>1. alive /\ UNCHANGED <<alive, installed, work>> /\ img' = <<>>
    BY <1>1 DEF Open, Runs, process, app
  <2>2. Held' = NULL
    BY <2>1 DEF Held, ComesUp
  <2> QED
    BY <2>1, <2>2, WriteStep
<1>2. CASE SkipRegion(s) \/ WriteNowhere(s) \/ WriteBlock(s) \/ WriteFails(s)
  <2>1. /\ alive /\ UNCHANGED <<alive, installed, work>> /\ Saving(s)
        /\ \E n \in {0, 1} : Advance(s, n)
        /\ img' = img \/ frames[s].fd
    BY <1>2 DEF SkipRegion, WriteNowhere, WriteBlock, WriteFails, Saving, Runs,
                process, app, files
  <2>2. frames'[s].fd = frames[s].fd
    BY <1>0, <2>1, AdvanceTypes
  <2>3. CASE img' = img
    BY <2>1, <2>3, QuietStep
  <2>4. CASE frames[s].fd
    <3>1. Held' \in {NULL, LOST, work'}
      BY <2>2, <2>4 DEF HeldIsPresent
    <3>2. Held' \in {NULL, LOST, work}
      BY <2>1, <3>1
    <3> QED BY <2>1, <3>2, WriteStep
  <2> QED BY <2>1, <2>3, <2>4
<1>3. CASE ListGone(s)
  BY <1>3, StopStep DEF ListGone, Saving, Runs, Store!Next
<1>4. CASE OpenFails(s) \/ ContextFails(s) \/ TestState(s) \/ Mark(s)
           \/ ResumeAfterRestart(s) \/ Close(s) \/ Finish(s)
  BY <1>4, QuietStep
     DEF OpenFails, ContextFails, TestState, Mark, ResumeAfterRestart,
         Close, Finish, process, files, app
<1> QED
  BY <1>1, <1>2, <1>3, <1>4 DEF HandlerStep

LEMMA StoreStep ==
  ASSUME StoreInv, HeldIsPresent', [Next]_vars
  PROVE  [Store!Next]_(Store!vars)
<1>1. CASE Work
  <2>1. UNCHANGED Held
    BY <1>1 DEF Work, files, Held, ComesUp, RestoredWork, Has, Saved
  <2>2. Store!Work
    BY <1>1, <2>1 DEF Work, AppRuns, process, Store!Work
  <2> QED
    BY <2>2 DEF Store!Next
<1>2. CASE MpiCall \/ MmapCall \/ LibcCall \/ ReadInfo \/ UnlinkInfo
           \/ SetInitialized \/ Jump \/ LowerReturn
  BY <1>2, QuietStep
     DEF MpiCall, MmapCall, LibcCall, ReadInfo, UnlinkInfo, SetInitialized,
         Jump, LowerReturn, Enter, Lower, process, files
<1>3. CASE ExitNoAddrBin \/ LowerGone \/ Crash \/ SignalKills \/ WorkGone
  BY <1>3, StopStep
     DEF ExitNoAddrBin, LowerGone, Crash, SignalKills, WorkGone, AppRuns,
         InWrapper, Store!Next
<1>4. CASE DoCheckpoint \/ Signal \/ SignalReturn \/ ReadState \/ ReturnToApp
  BY <1>4, QuietStep
     DEF DoCheckpoint, Signal, SignalReturn, ReadState, ReturnToApp,
         process, files, app
<1>5. CASE \E s \in Sources : HandlerStep(s)
  BY <1>5, HandlerStoreStep
<1>6. CASE \E b \in LowerHalves : Launch(b)
  <2>1. UNCHANGED Held
    BY <1>6 DEF Launch, Held, ComesUp, RestoredWork, Has, Saved
  <2>2. Store!Start
    BY <1>6, <2>1 DEF Launch, app, Store!Start, StoreInv, DeadHasNoWork
  <2> QED
    BY <2>2 DEF Store!Next
<1>7. CASE \E b \in LowerHalves : Restore(b)
  <2>1. PICK b \in LowerHalves : Restore(b)
    BY <1>7
  <2>2. ComesUp /\ ~alive /\ alive' /\ img' = img /\ work' = RestoredWork
        /\ installed' = installed
    BY <2>1 DEF Restore
  <2>3. installed' = FALSE
    BY <2>2 DEF StoreInv, IInv, DeadIsBlank, TypeOK
  <2>4. RestoredWork \in Nat \cup {LOST} /\ Held = RestoredWork
    BY <2>2, ComesUpBlocks DEF StoreInv, IInv, TypeOK, Held
  <2>5. UNCHANGED Held
    BY <2>2 DEF Held, ComesUp, RestoredWork, Has, Saved
  <2>6. Held # NULL
    BY <2>4, NullAssumption
  <2>7. alive' = TRUE
    BY <2>1 DEF Restore
  <2>8. Store!Recover
    BY <2>2, <2>3, <2>4, <2>5, <2>6, <2>7 DEF Store!Recover
  <2> QED
    BY <2>8 DEF Store!Next
<1>8. CASE \E b \in LowerHalves : RestoreFails(b)
  BY <1>8, QuietStep DEF RestoreFails, process, app
<1>9. CASE UNCHANGED vars
  BY <1>9, QuietStep DEF vars, process, files, app
<1> QED
  BY <1>1, <1>2, <1>3, <1>4, <1>5, <1>6, <1>7, <1>8, <1>9
     DEF Next, ThreadStep, WrapperStep

\* The rank keeps the promise of CheckpointStore, for every budget of
\* signals, failures, deaths and restarts, with an image restored as far as it
\* goes (mem-ckpt.c:69-128, mem-restore.c:80-134).
THEOREM Refinement == Spec => KeepsStorePromise
<1>1. Init => Store!Init
  BY DEF Init, Store!Init, Held, ComesUp
<1>2. StoreInv /\ [Next]_vars => StoreInv'
  BY NextStoreInv
<1>3. StoreInv => HeldIsPresent
  BY StoreInvHeld
<1>4. StoreInv /\ HeldIsPresent' /\ [Next]_vars => [Store!Next]_(Store!vars)
  BY StoreStep
<1> QED
  BY InitStoreInv, <1>1, <1>2, <1>3, <1>4, PTL DEF Spec, KeepsStorePromise, Store!Spec
=============================================================================
