----------------------------- MODULE RankSpace -----------------------------
(***************************************************************************)
(* The address spaces of the ranks of a job.                               *)
(*                                                                         *)
(* A launched rank is a process of its own.  It books the whole address    *)
(* space except a window that depends on its number (kernel-loader.c), so  *)
(* that what it maps, hence what its checkpoints save, is in the window.   *)
(* A restart loads the images of the ranks into one process that has       *)
(* booked nothing (mem-restore.c).  There the ranks are threads, with one  *)
(* table of mappings that no lock protects (mmap-wrapper.c).               *)
(*                                                                         *)
(* The unit is the page, and every mapping is one page.  That the kernel   *)
(* merges areas, what a checkpoint then loses, and signals during mmap are *)
(* in UpperHalfMemory.                                                     *)
(***************************************************************************)
EXTENDS Integers, FiniteSets

CONSTANTS
  Ranks,        \* the RANK_IDs of the job
  AddrSpaceSize,\* size of a window
  Loader,       \* first page of the lower half
  Break,        \* end of its heap
  Vvar, Vdso,   \* the kernel's pages
  Stack, Top,   \* its stack is [Stack, Top)
  MAX_TRACK,    \* size of the table of mappings
  MaxMaps,      \* bound on mappings of the upper half
  MaxLowerMaps, \* bound on mappings of the lower half
  MaxRestarts   \* bound on restarts

Pages == Loader .. Top - 1
Begin(r) == AddrSpaceSize + r * AddrSpaceSize
Window(r) == Begin(r) .. Begin(r) + AddrSpaceSize - 1

ASSUME SpaceAssumption ==
  /\ Ranks \subseteq Nat /\ AddrSpaceSize \in Nat \ {0}
  /\ {Loader, Break, Vvar, Vdso, Stack, Top} \subseteq Nat \ {0}
  /\ Loader < Break /\ Break <= AddrSpaceSize
  /\ Vvar < Vdso /\ Vdso < Stack /\ Stack < Top
  /\ \A r \in Ranks : Begin(r) + AddrSpaceSize <= Vvar
  /\ {MAX_TRACK, MaxMaps, MaxLowerMaps, MaxRestarts} \subseteq Nat
  /\ MaxMaps < MAX_TRACK \* full tables are in UpperHalfMemory

\* Who a page is mapped by: a rank, the lower half (or nobody, but it is
\* booked), or nobody.
Lower == -1
Free == -2
Owners == Ranks \cup {Lower, Free}

VARIABLES
  phase,   \* of the job: "launched", "down", "restoring", "joint" or "refused"
  map,     \* per process, the owner of each page; processes bear the number of
           \* their rank, or Joint
  mmaps,   \* per process, the table
  num,     \* per process, numRegions
  up,      \* the ranks that run
  call,    \* per rank, its mmap call in progress
  raced,   \* two ranks were in mmap at once
  image,   \* per file name, the image in the file
  tried,   \* the files of the restart
  pending, \* those that it has not loaded yet
  maps, lowerMaps, restarts  \* bounded counts

memory == <<map, mmaps, num>>
counts == <<maps, lowerMaps, restarts>>
vars == <<phase, memory, up, call, raced, image, tried, pending, counts>>

Joint == -1
Procs == Ranks \cup {Joint}
In(r) == IF phase = "launched" THEN r ELSE Joint

Unused == 0
NoTable == [i \in 0 .. MAX_TRACK - 1 |-> Unused]
NoCall == [at |-> "none", page |-> Unused, n |-> 0]
NoImage == [rank |-> Lower, pages |-> {}, joint |-> FALSE]

\* The name of a rank's image has the first character of its RANK_ID.
FirstDigit[n \in Nat] == IF n < 10 THEN n ELSE FirstDigit[n \div 10]

FileOf(r) == FirstDigit[r]
Files == {FileOf(r) : r \in Ranks}
-----------------------------------------------------------------------------
(* Address spaces.                                                         *)

\* What a program that starts has mapped.
AtStart(p) == p < Break \/ p = Vvar \/ p = Vdso \/ p >= Stack
Started == [p \in Pages |-> IF AtStart(p) THEN Lower ELSE Free]

\* Mutant: the space behind the window is not booked.
MutantBooked(r) == Break .. Begin(r) - 1

\* confine_addr_space.
Booked(r) ==
  (Break .. Begin(r) - 1) \cup (Begin(r) + AddrSpaceSize .. Vvar - 1)
    \cup (Vvar + 1 .. Vdso - 1) \cup (Vdso + 1 .. Stack - 1)

Confined(r) == [p \in Pages |-> IF p \in Booked(r) THEN Lower ELSE Started[p]]

\* The kernel maps below what it has mapped before, from the stack downwards.
IsNext(m, p) == m[p] = Free /\ \A q \in Pages : m[q] = Free => q <= p

Init ==
  /\ phase = "launched" /\ up = Ranks
  /\ map = [p \in Procs |-> IF p = Joint THEN Started ELSE Confined(p)]
  /\ mmaps = [p \in Procs |-> NoTable] /\ num = [p \in Procs |-> 0]
  /\ call = [r \in Ranks |-> NoCall] /\ raced = FALSE
  /\ image = [f \in Files |-> NoImage] /\ tried = {} /\ pending = {}
  /\ maps = 0 /\ lowerMaps = 0 /\ restarts = 0

\* Mappings past the wrapper, by the lower half in process p.
LhMap(p) ==
  /\ \E r \in up : In(r) = p
  /\ lowerMaps < MaxLowerMaps /\ lowerMaps' = lowerMaps + 1
  /\ \E a \in Pages :
       IsNext(map[p], a) /\ map' = [map EXCEPT ![p][a] = Lower]
  /\ UNCHANGED <<phase, mmaps, num, up, call, raced, image, tried, pending, maps, restarts>>
-----------------------------------------------------------------------------
(* mmap in rank r, through the wrapper.                                    *)

Calling(r, at) == r \in up /\ call[r].at = at
Goes(r, c) ==
  /\ call' = [call EXCEPT ![r] = c]
  /\ UNCHANGED <<phase, up, image, tried, pending, lowerMaps, restarts>>

Mmap(r) ==
  /\ Calling(r, "none")
  /\ maps < MaxMaps /\ maps' = maps + 1
  /\ \E a \in Pages :
       /\ IsNext(map[In(r)], a)
       /\ map' = [map EXCEPT ![In(r)][a] = r]
       /\ Goes(r, [at |-> "mapped", page |-> a, n |-> 0])
  /\ raced' = (raced \/ \E q \in up : In(q) = In(r) /\ ~Calling(q, "none"))
  /\ UNCHANGED <<mmaps, num>>

\* mmaps[numRegions] = ...
Store(r) ==
  /\ Calling(r, "mapped")
  /\ mmaps' = [mmaps EXCEPT ![In(r)][num[In(r)]] = call[r].page]
  /\ Goes(r, [call[r] EXCEPT !.at = "stored"])
  /\ UNCHANGED <<map, num, raced, maps>>

\* numRegions = (numRegions + 1) % MAX_TRACK: read, then written.
LoadNum(r) ==
  /\ Calling(r, "stored")
  /\ Goes(r, [call[r] EXCEPT !.at = "loaded", !.n = num[In(r)]])
  /\ UNCHANGED <<memory, raced, maps>>

\* Mutant: the next mapping goes to the same place.
MutantNextNum(n) == n

NextNum(n) == (n + 1) % MAX_TRACK

StoreNum(r) ==
  /\ Calling(r, "loaded")
  /\ num' = [num EXCEPT ![In(r)] = NextNum(call[r].n)]
  /\ Goes(r, NoCall)
  /\ UNCHANGED <<map, mmaps, raced, maps>>
-----------------------------------------------------------------------------
(* Checkpoint and restart.                                                 *)

Listed(p) == {mmaps[p][i] : i \in 0 .. num[p] - 1} \ {Unused}

\* doCheckpoint: all that is listed, whoever's it is.
Checkpoint(r) ==
  /\ Calling(r, "none")
  /\ image' = [image EXCEPT ![FileOf(r)] =
       [rank |-> r, pages |-> Listed(In(r)), joint |-> phase = "joint"]]
  /\ UNCHANGED <<phase, memory, up, call, raced, tried, pending, counts>>

\* A job ends: ranks are killed, return from main, or could not be restored.
Die ==
  /\ phase \in {"launched", "joint", "refused"}
  /\ phase' = "down" /\ up' = {} /\ call' = [r \in Ranks |-> NoCall]
  /\ map' = [p \in Procs |-> Started]
  /\ mmaps' = [p \in Procs |-> NoTable] /\ num' = [p \in Procs |-> 0]
  /\ tried' = {} /\ pending' = {} /\ raced' = FALSE
  /\ UNCHANGED <<image, counts>>

\* restoreCheckpoint in a new process.
Restart(fs) ==
  /\ phase = "down" /\ fs # {} /\ \A f \in fs : image[f] # NoImage
  /\ restarts < MaxRestarts /\ restarts' = restarts + 1
  /\ phase' = "restoring" /\ tried' = fs /\ pending' = fs
  /\ UNCHANGED <<memory, up, call, raced, image, maps, lowerMaps>>

\* The pages of an image are recorded in the order of the file.
Place(s, a) == Cardinality({b \in s : b < a})
Recorded(t, n, s) ==
  [i \in 0 .. MAX_TRACK - 1 |->
     IF \E a \in s : n + Place(s, a) = i
     THEN CHOOSE a \in s : n + Place(s, a) = i ELSE t[i]]

\* anyOverlappingRegion
Fits(f) == \A a \in image[f].pages : map[Joint][a] = Free

\* Mutant: each area is counted twice.
MutantAfter(n, s) == n + 2 * Cardinality(s)

After(n, s) == n + Cardinality(s)

\* restoreMemoryForImage, one image after another.
Load(f) ==
  /\ phase = "restoring" /\ f \in pending /\ Fits(f)
  /\ pending' = pending \ {f}
  /\ map' = [map EXCEPT ![Joint] =
       [a \in Pages |-> IF a \in image[f].pages THEN image[f].rank ELSE @[a]]]
  /\ mmaps' = [mmaps EXCEPT ![Joint] = Recorded(@, num[Joint], image[f].pages)]
  /\ num' = [num EXCEPT ![Joint] = After(@, image[f].pages)]
  /\ UNCHANGED <<phase, up, call, raced, image, tried, counts>>

Refuse(f) ==
  /\ phase = "restoring" /\ f \in pending /\ ~Fits(f)
  /\ phase' = "refused"
  /\ UNCHANGED <<memory, up, call, raced, image, tried, pending, counts>>

\* pthread_create for every rank, and setcontext in each.
StartRanks ==
  /\ phase = "restoring" /\ pending = {}
  /\ phase' = "joint" /\ up' = {image[f].rank : f \in tried}
  /\ UNCHANGED <<memory, call, raced, image, tried, pending, counts>>
-----------------------------------------------------------------------------
Next ==
  \/ \E r \in Ranks : Mmap(r) \/ Store(r) \/ LoadNum(r) \/ StoreNum(r) \/ Checkpoint(r)
  \/ \E p \in Procs : LhMap(p)
  \/ Die \/ StartRanks
  \/ \E fs \in SUBSET Files : Restart(fs)
  \/ \E f \in Files : Load(f) \/ Refuse(f)

Spec == Init /\ [][Next]_vars
-----------------------------------------------------------------------------
(* Properties.                                                             *)

Image == [rank : Ranks, pages : SUBSET Pages, joint : BOOLEAN]

TypeOK ==
  /\ phase \in {"launched", "down", "restoring", "joint", "refused"}
  /\ map \in [Procs -> [Pages -> Owners]]
  /\ mmaps \in [Procs -> [0 .. MAX_TRACK - 1 -> Pages \cup {Unused}]]
  /\ num \in [Procs -> 0 .. MAX_TRACK - 1]
  /\ up \subseteq Ranks /\ raced \in BOOLEAN
  /\ call \in [Ranks -> [at : {"none", "mapped", "stored", "loaded"},
                         page : Pages \cup {Unused}, n : 0 .. MAX_TRACK - 1]]
  /\ image \in [Files -> Image \cup {NoImage}]
  /\ pending \subseteq tried /\ tried \subseteq Files
  /\ maps \in 0 .. MaxMaps /\ lowerMaps \in 0 .. MaxLowerMaps
  /\ restarts \in 0 .. MaxRestarts

\* A restart is refused only for an image that was written after a restart:
\* what launched ranks save never meets, neither with one another's nor with
\* the lower half that restores it.
FirstRestartFits ==
  phase = "refused" => \E f \in tried : image[f].joint

\* Between calls the table lists what the ranks of a process have mapped and
\* what was restored for them, neither less nor more, unless two of them were
\* in mmap at once.
OwnIsListed ==
  phase \in {"launched", "joint"} /\ ~raced =>
    \A p \in Procs :
      (\A r \in up : In(r) = p => call[r].at = "none")
        => Listed(p) = {a \in Pages : map[p][a] \in Ranks}

\* Ranks brought together are no conflict (kernel-loader.h:4-6), also when
\* they were checkpointed after a restart, as mem-restore.c:170-171 wants
\* them to be.
RestartsFit == phase # "refused"
=============================================================================
