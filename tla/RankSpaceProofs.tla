-------------------------- MODULE RankSpaceProofs --------------------------
(***************************************************************************)
(* Proofs about RankSpace, for any ranks, address space and bounds.        *)
(***************************************************************************)
EXTENDS RankSpace, FiniteSetTheorems, TLAPS

Indexes == 0 .. MAX_TRACK - 1

\* Ranks that do not run are not in a call, and nothing runs between the end of
\* a job and the end of its restart.
OnlyRunningCall ==
  /\ \A r \in Ranks \ up : call[r] = NoCall
  /\ phase \in {"down", "restoring", "refused"} => up = {}

\* Launched ranks have, and find, nothing outside their windows.
InWindow ==
  phase = "launched" => \A r \in Ranks :
    /\ \A a \in Pages : map[r][a] = Free => a \in Window(r)
    /\ \A i \in Indexes : mmaps[r][i] \in Window(r) \cup {Unused}
    /\ call[r].page \in Window(r) \cup {Unused}

\* Images bear the names of their ranks, and those of launched ranks are of
\* their windows.
ImagesNamed ==
  \A f \in Files : image[f] # NoImage =>
    /\ image[f].rank \in Ranks /\ FileOf(image[f].rank) = f
    /\ image[f].pages \subseteq Pages
    /\ ~image[f].joint => image[f].pages \subseteq Window(image[f].rank)

TriedExist == \A f \in tried : image[f] # NoImage

\* What a restart has put into its process, and where.
Loaded ==
  /\ phase \in {"down", "restoring"} => ~raced
  /\ phase = "down" => map[Joint] = Started /\ num[Joint] = 0 /\ mmaps[Joint] = NoTable
  /\ phase = "restoring" =>
       /\ \A a \in Pages : \/ map[Joint][a] = Started[a]
                           \/ \E g \in tried \ pending : a \in image[g].pages
       /\ \A i \in Indexes : i >= num[Joint] => mmaps[Joint][i] = Unused
       /\ num[Joint] = Cardinality(Listed(Joint))

\* Every page that was ever mapped and is still spoken of.
Ever ==
  {a \in Pages :
     \/ \E f \in Files : a \in image[f].pages
     \/ \E p \in Procs, i \in Indexes : mmaps[p][i] = a
     \/ \E r \in Ranks : call[r].page = a}
EverCounted == Cardinality(Ever) <= maps

\* The table against the map, when no two ranks have met.
Owned(p) == {a \in Pages : map[p][a] \in Ranks}
Callers(p) == {r \in up : In(r) = p /\ call[r].at # "none"}
Tabled(p) ==
  /\ Listed(p) = Owned(p) \ {call[r].page : r \in Callers(p)}
  /\ num[p] <= maps
  /\ \A r \in Callers(p) :
       /\ num[p] < maps
       /\ \A q \in Callers(p) : q = r
       /\ call[r].page \in Owned(p)
       /\ call[r].at \in {"stored", "loaded"} => mmaps[p][num[p]] = call[r].page
       /\ call[r].at = "loaded" => call[r].n = num[p]
AllTabled == ~raced => \A p \in Procs : Tabled(p)

Inv ==
  /\ TypeOK /\ OnlyRunningCall /\ InWindow /\ ImagesNamed /\ TriedExist /\ Loaded
  /\ EverCounted /\ AllTabled /\ FirstRestartFits
-----------------------------------------------------------------------------
(* Windows.                                                                *)

LEMMA WindowsArePages ==
  ASSUME NEW r \in Ranks
  PROVE  /\ Window(r) \subseteq Pages /\ Begin(r) \in Nat /\ AddrSpaceSize <= Begin(r)
         /\ \A a \in Window(r) : Started[a] = Free
<1>1. r \in Nat /\ AddrSpaceSize \in Nat \ {0}
  BY SpaceAssumption
<1>2. Begin(r) \in Nat /\ AddrSpaceSize <= Begin(r)
  BY <1>1 DEF Begin
<1>3. Begin(r) + AddrSpaceSize <= Vvar
  BY SpaceAssumption
<1>4. Window(r) \subseteq Pages
  BY <1>1, <1>2, <1>3, SpaceAssumption DEF Window, Pages
<1>5. ASSUME NEW a \in Window(r)
      PROVE  Started[a] = Free
  <2>1. ~AtStart(a)
    BY <1>1, <1>2, <1>3, SpaceAssumption DEF Window, AtStart
  <2> QED
    BY <1>4, <2>1 DEF Started
<1> QED
  BY <1>2, <1>4, <1>5

LEMMA WindowsApart ==
  ASSUME NEW q \in Ranks, NEW r \in Ranks, q # r
  PROVE  Window(q) \cap Window(r) = {}
<1>1. q \in Nat /\ r \in Nat /\ AddrSpaceSize \in Nat \ {0}
  BY SpaceAssumption
<1>2. ASSUME NEW m \in Nat, NEW n \in Nat, m < n
      PROVE  m * AddrSpaceSize + AddrSpaceSize <= n * AddrSpaceSize
  BY <1>1, <1>2
<1>3. q < r \/ r < q
  BY <1>1
<1>4. q * AddrSpaceSize \in Nat /\ r * AddrSpaceSize \in Nat
  BY <1>1
<1>5. CASE q < r
  <2>1. q * AddrSpaceSize + AddrSpaceSize <= r * AddrSpaceSize
    BY <1>1, <1>2, <1>5
  <2> QED
    BY <1>1, <1>4, <2>1 DEF Window, Begin
<1>6. CASE r < q
  <2>1. r * AddrSpaceSize + AddrSpaceSize <= q * AddrSpaceSize
    BY <1>1, <1>2, <1>6
  <2> QED
    BY <1>1, <1>4, <2>1 DEF Window, Begin
<1> QED
  BY <1>3, <1>5, <1>6

\* What a launched rank finds free is in its window.
LEMMA ConfinedToWindow ==
  ASSUME NEW r \in Ranks, NEW a \in Pages, Confined(r)[a] = Free
  PROVE  a \in Window(r)
<1>1. a \notin Booked(r) /\ Started[a] = Free
  BY SpaceAssumption DEF Confined, Lower, Free
<1>2. ~AtStart(a)
  BY <1>1 DEF Started, Lower, Free
<1>3. Begin(r) \in Nat /\ AddrSpaceSize \in Nat
  BY WindowsArePages, SpaceAssumption
<1> QED
  BY <1>1, <1>2, <1>3, SpaceAssumption DEF Booked, AtStart, Window, Pages

LEMMA OwnersAre ==
  /\ Joint \notin Ranks /\ Lower \notin Ranks /\ Free \notin Ranks /\ Lower # Free
  /\ Unused \notin Pages /\ IsFiniteSet(Pages)
  /\ MAX_TRACK \in Nat /\ MAX_TRACK > 0 /\ 0 \in Indexes
  /\ MaxMaps \in Nat /\ MaxMaps < MAX_TRACK
  /\ NoTable \in [Indexes -> Pages \cup {Unused}]
  /\ Started \in [Pages -> Owners] /\ \A a \in Pages : Started[a] \notin Ranks
  /\ \A r \in Ranks : Confined(r) \in [Pages -> Owners]
                      /\ \A a \in Pages : Confined(r)[a] \notin Ranks
<1>1. Ranks \subseteq Nat /\ Lower \notin Nat /\ Free \notin Nat /\ Lower # Free
  BY SpaceAssumption DEF Lower, Free
<1>2. IsFiniteSet(Pages) /\ Unused \notin Pages
  <2>1. Loader \in Int /\ Top - 1 \in Int /\ Loader > 0
    BY SpaceAssumption
  <2> QED
    BY <2>1, FS_Interval DEF Pages, Unused
<1>3. \A a \in Pages : Started[a] \in {Lower, Free}
  BY DEF Started
<1>4. \A r \in Ranks : \A a \in Pages : Confined(r)[a] \in {Lower, Free}
  BY <1>3 DEF Confined
<1>5. /\ MAX_TRACK \in Nat /\ MAX_TRACK > 0 /\ 0 \in Indexes
      /\ MaxMaps \in Nat /\ MaxMaps < MAX_TRACK
  BY SpaceAssumption DEF Indexes
<1>6. NoTable \in [Indexes -> Pages \cup {Unused}]
  BY DEF NoTable, Indexes
<1>7. Started \in [Pages -> Owners] /\ \A a \in Pages : Started[a] \notin Ranks
  BY <1>1, <1>3 DEF Started, Owners
<1>8. \A r \in Ranks : Confined(r) \in [Pages -> Owners]
                       /\ \A a \in Pages : Confined(r)[a] \notin Ranks
  BY <1>1, <1>4 DEF Confined, Owners
<1> QED
  BY <1>1, <1>2, <1>5, <1>6, <1>7, <1>8 DEF Joint, Lower
-----------------------------------------------------------------------------
(* The start of a job.                                                     *)

\* Nothing is listed in an empty table, and nobody owns a page of a process
\* that has just started.
LEMMA NothingListed ==
  ASSUME NEW p, num[p] = 0
  PROVE  Listed(p) = {}
BY DEF Listed

LEMMA InitInv == Init => Inv
<1> SUFFICES ASSUME Init PROVE Inv
  OBVIOUS
<1>1. TypeOK
  <2>1. map \in [Procs -> [Pages -> Owners]]
    BY OwnersAre DEF Init, Procs
  <2>2. mmaps \in [Procs -> [Indexes -> Pages \cup {Unused}]]
    BY OwnersAre DEF Init
  <2>3. /\ num \in [Procs -> 0 .. MAX_TRACK - 1] /\ maps \in 0 .. MaxMaps
        /\ lowerMaps \in 0 .. MaxLowerMaps /\ restarts \in 0 .. MaxRestarts
    BY OwnersAre, SpaceAssumption DEF Init, Indexes
  <2>4. NoCall \in [at : {"none", "mapped", "stored", "loaded"},
                   page : Pages \cup {Unused}, n : 0 .. MAX_TRACK - 1]
    BY OwnersAre DEF NoCall, Indexes
  <2> QED
    BY <2>1, <2>2, <2>3, <2>4 DEF Init, TypeOK, Indexes
<1>2. OnlyRunningCall /\ ImagesNamed /\ TriedExist /\ FirstRestartFits /\ Loaded
  BY DEF Init, OnlyRunningCall, ImagesNamed, TriedExist, FirstRestartFits, Loaded
<1>3. InWindow
  <2> SUFFICES ASSUME NEW r \in Ranks
               PROVE  /\ \A a \in Pages : map[r][a] = Free => a \in Window(r)
                      /\ \A i \in Indexes : mmaps[r][i] \in Window(r) \cup {Unused}
                      /\ call[r].page \in Window(r) \cup {Unused}
    BY DEF InWindow
  <2>1. r # Joint /\ r \in Procs
    BY OwnersAre DEF Procs
  <2> QED
    BY <2>1, ConfinedToWindow DEF Init, NoTable, NoCall, Indexes
<1>4. EverCounted
  <2>1. Ever = {}
    BY OwnersAre DEF Init, Ever, NoTable, NoCall, NoImage, Indexes
  <2> QED
    BY <2>1, FS_EmptySet DEF Init, EverCounted
<1>5. AllTabled
  <2> SUFFICES ASSUME NEW p \in Procs PROVE Tabled(p)
    BY DEF AllTabled
  <2>1. Listed(p) = {} /\ Owned(p) = {} /\ Callers(p) = {} /\ num[p] <= maps
    BY NothingListed, OwnersAre DEF Init, Owned, Callers, NoCall, Procs
  <2> QED
    BY <2>1 DEF Tabled
<1> QED
  BY <1>1, <1>2, <1>3, <1>4, <1>5 DEF Inv
-----------------------------------------------------------------------------
(* Calls of mmap.                                                          *)

\* A rank that runs is in a process, alone there when it was launched.
LEMMA Runs ==
  ASSUME Inv, NEW r \in up
  PROVE  /\ r \in Ranks /\ In(r) \in Procs /\ phase \in {"launched", "joint"}
         /\ phase = "launched" => In(r) = r
         /\ num[In(r)] \in Indexes
<1>1. r \in Ranks /\ In(r) \in Procs /\ phase \in {"launched", "joint"}
  BY DEF Inv, TypeOK, OnlyRunningCall, In, Procs
<1> QED
  BY <1>1 DEF Inv, TypeOK, In, Indexes

LEMMA EverFinite == IsFiniteSet(Ever) /\ Cardinality(Ever) \in Nat
<1>1. Ever \in SUBSET Pages
  BY DEF Ever
<1>2. IsFiniteSet(Ever)
  BY <1>1, OwnersAre, FS_Subset
<1> QED
  BY <1>2, FS_CardinalityType

\* No page is added to those that count.
LEMMA EverKept ==
  ASSUME Inv, Ever' \subseteq Ever, maps' = maps
  PROVE  EverCounted'
<1>1. Cardinality(Ever') <= Cardinality(Ever)
  BY EverFinite, FS_Subset
<1>2. Cardinality(Ever') \in Nat /\ maps \in Nat
  <2>1. Ever' \in SUBSET Ever
    OBVIOUS
  <2>2. IsFiniteSet(Ever')
    BY <2>1, EverFinite, FS_Subset
  <2> QED
    BY <2>2, FS_CardinalityType, OwnersAre DEF Inv, TypeOK
<1> QED
  BY <1>1, <1>2, EverFinite DEF Inv, EverCounted

\* What is listed is in the table.
LEMMA ListedIsIndexed ==
  ASSUME Inv, NEW p \in Procs
  PROVE  /\ Listed(p) \subseteq Pages
         /\ \A a \in Listed(p) : \E i \in Indexes : mmaps[p][i] = a
<1>1. num[p] \in Indexes /\ \A i \in Indexes : mmaps[p][i] \in Pages \cup {Unused}
  <2>1. /\ num \in [Procs -> Indexes]
        /\ mmaps \in [Procs -> [Indexes -> Pages \cup {Unused}]]
    BY DEF Inv, TypeOK, Indexes
  <2>2. mmaps[p] \in [Indexes -> Pages \cup {Unused}]
    BY <2>1
  <2> QED
    BY <2>1, <2>2
<1>2. \A i \in 0 .. num[p] - 1 : i \in Indexes
  BY <1>1, OwnersAre DEF Indexes
<1> QED
  BY <1>1, <1>2 DEF Listed

\* A process is as it was.
LEMMA StaysTabled ==
  ASSUME NEW p \in Procs, Tabled(p), maps' \in Nat, maps \in Nat, num[p] \in Nat,
         map'[p] = map[p], mmaps'[p] = mmaps[p], num'[p] = num[p], maps <= maps',
         Callers(p)' = Callers(p), \A r \in Callers(p) : call'[r] = call[r]
  PROVE  Tabled(p)'
<1>1. Listed(p)' = Listed(p) /\ Owned(p)' = Owned(p)
  BY DEF Listed, Owned
<1> QED
  BY <1>1 DEF Tabled

\* What a step of a call leaves alone: the rest of the job.
CallStep(r) ==
  /\ r \in up /\ call' \in [Ranks -> [at : {"none", "mapped", "stored", "loaded"},
                                      page : Pages \cup {Unused}, n : 0 .. MAX_TRACK - 1]]
  /\ \A q \in Ranks \ {r} : call'[q] = call[q]
  /\ UNCHANGED <<phase, up, image, tried, pending, lowerMaps, restarts>>

LEMMA CallStepElsewhere ==
  ASSUME Inv, NEW r \in Ranks, CallStep(r), maps' \in 0 .. MaxMaps,
         \A p \in Procs \ {In(r)} :
           map'[p] = map[p] /\ mmaps'[p] = mmaps[p] /\ num'[p] = num[p]
  PROVE  /\ OnlyRunningCall' /\ ImagesNamed' /\ TriedExist' /\ Loaded' /\ FirstRestartFits'
         /\ maps <= maps' /\ ~raced => \A p \in Procs \ {In(r)} : Tabled(p)'
<1>1. phase \in {"launched", "joint"} /\ phase' = phase
  BY Runs DEF CallStep
<1>2. OnlyRunningCall' /\ ImagesNamed' /\ TriedExist' /\ Loaded' /\ FirstRestartFits'
  BY <1>1 DEF CallStep, Inv, OnlyRunningCall, ImagesNamed, TriedExist, Loaded, FirstRestartFits
<1>3. ASSUME maps <= maps', ~raced, NEW p \in Procs \ {In(r)}
      PROVE  Tabled(p)'
  <2>1. Tabled(p) /\ maps \in Nat /\ maps' \in Nat /\ num[p] \in Nat
    BY <1>3, OwnersAre DEF Inv, AllTabled, TypeOK
  <2>2. r \notin Callers(p) /\ r \notin Callers(p)'
    BY <1>1, <1>3 DEF Callers, In
  <2>3. up \subseteq Ranks /\ up' = up
    BY DEF Inv, TypeOK, CallStep
  <2>4. \A q \in up \ {r} : call'[q] = call[q] /\ In(q)' = In(q)
    BY <1>1, <2>3 DEF CallStep, In
  <2>5. Callers(p)' = Callers(p) /\ \A q \in Callers(p) : call'[q] = call[q]
    BY <2>2, <2>3, <2>4 DEF Callers
  <2> QED
    BY <1>3, <2>1, <2>5, StaysTabled
<1> QED
  BY <1>2, <1>3

LEMMA MmapInv ==
  ASSUME Inv, NEW r \in Ranks, Mmap(r)
  PROVE  Inv'
<1>p. PICK p : p = In(r)
  OBVIOUS
<1>0. /\ r \in up /\ p \in Procs /\ (phase = "launched" => p = r) /\ num[p] \in Indexes
      /\ phase \in {"launched", "joint"}
  BY <1>p, Runs DEF Mmap, Calling
<1>1. PICK a \in Pages :
        /\ map[p][a] = Free /\ map' = [map EXCEPT ![p][a] = r]
        /\ call' = [call EXCEPT ![r] = [at |-> "mapped", page |-> a, n |-> 0]]
  BY <1>p DEF Mmap, Goes, IsNext
<1>2. /\ UNCHANGED <<phase, up, image, tried, pending, lowerMaps, restarts, mmaps, num>>
      /\ maps' = maps + 1 /\ maps < MaxMaps /\ call[r].at = "none"
      /\ raced' = (raced \/ \E q \in up : In(q) = p /\ ~Calling(q, "none"))
  BY <1>p DEF Mmap, Goes, Calling
<1>3. /\ maps \in Nat /\ maps' \in 0 .. MaxMaps /\ maps <= maps'
  BY <1>2, OwnersAre DEF Inv, TypeOK
<1>4. /\ map'[p] = [map[p] EXCEPT ![a] = r] /\ map[p] \in [Pages -> Owners]
      /\ \A q \in Procs \ {p} : map'[q] = map[q]
  BY <1>0, <1>1 DEF Inv, TypeOK
<1>5. call'[r] = [at |-> "mapped", page |-> a, n |-> 0]
      /\ \A q \in Ranks \ {r} : call'[q] = call[q]
  BY <1>1 DEF Inv, TypeOK
<1>6. CallStep(r) /\ map' \in [Procs -> [Pages -> Owners]]
  <2>1. 0 \in 0 .. MAX_TRACK - 1 /\ r \in Owners
    BY OwnersAre DEF Owners, Indexes
  <2> QED
    BY <1>0, <1>1, <1>2, <1>5, <2>1 DEF CallStep, Inv, TypeOK
<1>7. TypeOK'
  BY <1>2, <1>3, <1>6 DEF CallStep, Inv, TypeOK
<1>8. /\ OnlyRunningCall' /\ ImagesNamed' /\ TriedExist' /\ Loaded' /\ FirstRestartFits'
      /\ ~raced => \A q \in Procs \ {p} : Tabled(q)'
  BY <1>p, <1>2, <1>3, <1>4, <1>6, CallStepElsewhere
<1>9. InWindow'
  <2> SUFFICES ASSUME phase = "launched", NEW q \in Ranks
               PROVE  /\ \A b \in Pages : map'[q][b] = Free => b \in Window(q)
                      /\ \A i \in Indexes : mmaps'[q][i] \in Window(q) \cup {Unused}
                      /\ call'[q].page \in Window(q) \cup {Unused}
    BY <1>2 DEF InWindow
  <2>1. /\ \A b \in Pages : map[q][b] = Free => b \in Window(q)
        /\ \A i \in Indexes : mmaps[q][i] \in Window(q) \cup {Unused}
        /\ call[q].page \in Window(q) \cup {Unused}
    BY DEF Inv, InWindow
  <2>2. CASE q = r
    BY <1>0, <1>1, <1>2, <1>4, <1>5, <2>1, <2>2, OwnersAre
  <2>3. CASE q # r
    BY <1>0, <1>2, <1>4, <1>5, <2>1, <2>3 DEF Procs
  <2> QED
    BY <2>2, <2>3
<1>10. EverCounted'
  <2>1. Ever' \subseteq Ever \cup {a}
    BY <1>2, <1>5 DEF Ever
  <2>2. IsFiniteSet(Ever \cup {a}) /\ Cardinality(Ever \cup {a}) <= Cardinality(Ever) + 1
    <3>1. /\ IsFiniteSet(Ever \cup {a})
          /\ Cardinality(Ever \cup {a}) =
               IF a \in Ever THEN Cardinality(Ever) ELSE Cardinality(Ever) + 1
      BY EverFinite, FS_AddElement, Zenon
    <3> QED
      BY <3>1, EverFinite
  <2>3. IsFiniteSet(Ever') /\ Cardinality(Ever') <= Cardinality(Ever \cup {a})
    BY <2>1, <2>2, FS_Subset
  <2>4. Cardinality(Ever') \in Nat /\ Cardinality(Ever \cup {a}) \in Nat
    BY <2>2, <2>3, FS_CardinalityType
  <2> QED
    BY <1>2, <1>3, <2>2, <2>3, <2>4, EverFinite DEF Inv, EverCounted
<1>11. AllTabled'
  <2> SUFFICES ASSUME ~raced' PROVE Tabled(p)'
    BY <1>2, <1>8 DEF AllTabled
  <2>1. ~raced /\ Callers(p) = {}
    BY <1>2 DEF Callers, Calling
  <2>2. Listed(p) = Owned(p) /\ num[p] <= maps
    BY <1>0, <2>1 DEF Inv, AllTabled, Tabled
  <2>3. Callers(p)' = {r}
    <3>1. r \in Callers(p)'
      BY <1>p, <1>0, <1>2, <1>5 DEF Callers, In
    <3>2. \A q \in up \ {r} : q \notin Callers(p)'
      BY <1>2, <1>5, <2>1 DEF Callers, In, Inv, TypeOK
    <3> QED
      BY <1>2, <3>1, <3>2 DEF Callers
  <2>4. Owned(p)' = Owned(p) \cup {a} /\ a \notin Owned(p) /\ Listed(p)' = Listed(p)
    BY <1>1, <1>2, <1>4, OwnersAre DEF Owned, Listed
  <2>5. num'[p] <= maps' /\ num'[p] < maps'
    BY <1>0, <1>2, <1>3, <2>2 DEF Indexes
  <2> QED
    BY <1>5, <2>2, <2>3, <2>4, <2>5 DEF Tabled
<1> QED
  BY <1>7, <1>8, <1>9, <1>10, <1>11 DEF Inv

\* A call goes on: the maps are as they were, and so is the rest of the job.
GoesOn(r, p, c) ==
  /\ r \in up /\ p \in Procs /\ p = In(r) /\ (phase = "launched" => p = r)
  /\ num[p] \in Indexes
  /\ phase \in {"launched", "joint"}
  /\ c \in [at : {"none", "mapped", "stored", "loaded"},
            page : Pages \cup {Unused}, n : 0 .. MAX_TRACK - 1]
  /\ call'[r] = c /\ \A q \in Ranks \ {r} : call'[q] = call[q]
  /\ CallStep(r) /\ UNCHANGED <<map, raced, maps>>
  /\ \A q \in Procs \ {p} : mmaps'[q] = mmaps[q] /\ num'[q] = num[q]

LEMMA GoingOn ==
  ASSUME Inv, NEW r \in Ranks, NEW c, c.page \in {call[r].page, Unused},
         c \in [at : {"none", "mapped", "stored", "loaded"},
                page : Pages \cup {Unused}, n : 0 .. MAX_TRACK - 1],
         r \in up, Goes(r, c), UNCHANGED <<map, raced, maps>>,
         NEW p, p = In(r),
         \A q \in Procs \ {p} : mmaps'[q] = mmaps[q] /\ num'[q] = num[q]
  PROVE  GoesOn(r, p, c)
<1>1. /\ r \in up /\ p \in Procs /\ (phase = "launched" => p = r) /\ num[p] \in Indexes
      /\ phase \in {"launched", "joint"}
  BY Runs
<1>2. /\ call' \in [Ranks -> [at : {"none", "mapped", "stored", "loaded"},
                              page : Pages \cup {Unused}, n : 0 .. MAX_TRACK - 1]]
      /\ call'[r] = c /\ \A q \in Ranks \ {r} : call'[q] = call[q]
  BY DEF Goes, Inv, TypeOK
<1> QED
  BY <1>1, <1>2 DEF GoesOn, CallStep, Goes

LEMMA GoesOnElsewhere ==
  ASSUME Inv, NEW r \in Ranks, NEW p, NEW c, GoesOn(r, p, c)
  PROVE  /\ OnlyRunningCall' /\ ImagesNamed' /\ TriedExist' /\ Loaded' /\ FirstRestartFits'
         /\ ~raced => \A q \in Procs \ {p} : Tabled(q)'
<1>1. maps' \in 0 .. MaxMaps /\ maps <= maps'
  BY OwnersAre DEF GoesOn, Inv, TypeOK
<1> QED
  BY <1>1, CallStepElsewhere DEF GoesOn

\* Who is in a call in the process of a rank that goes on.
LEMMA CallersThen ==
  ASSUME Inv, NEW r \in Ranks, NEW p, NEW c, GoesOn(r, p, c), call[r].at # "none", ~raced
  PROVE  /\ Callers(p) = {r} /\ Callers(p)' = IF c.at = "none" THEN {} ELSE {r}
         /\ Tabled(p) /\ Owned(p)' = Owned(p)
<1>1. Tabled(p) /\ r \in Callers(p)
  BY DEF Inv, AllTabled, GoesOn, Callers
<1>2. Callers(p) = {r}
  BY <1>1 DEF Tabled
<1>3. up' = up /\ \A q \in Ranks : In(q)' = In(q)
  BY DEF GoesOn, CallStep, In
<1>4. \A q \in up \ {r} : In(q) # p \/ call[q].at = "none"
  BY <1>2 DEF Callers
<1>5. \A q \in up \ {r} : q \notin Callers(p)'
  BY <1>3, <1>4 DEF GoesOn, Callers, Inv, TypeOK
<1>6. r \in Callers(p)' <=> c.at # "none"
  BY <1>3 DEF GoesOn, Callers
<1>7. Callers(p)' = IF c.at = "none" THEN {} ELSE {r}
  BY <1>3, <1>5, <1>6 DEF Callers
<1> QED
  BY <1>1, <1>2, <1>7 DEF Owned, GoesOn

LEMMA StoreInv ==
  ASSUME Inv, NEW r \in Ranks, Store(r)
  PROVE  Inv'
<1>p. PICK p : p = In(r)
  OBVIOUS
<1> DEFINE c == [call[r] EXCEPT !.at = "stored"]
<1>1. /\ call[r].at = "mapped" /\ r \in up /\ call[r].page \in Pages \cup {Unused}
      /\ c \in [at : {"none", "mapped", "stored", "loaded"},
                page : Pages \cup {Unused}, n : 0 .. MAX_TRACK - 1]
      /\ c.page = call[r].page /\ c.at = "stored"
  BY DEF Store, Calling, Inv, TypeOK
<1>2. mmaps' = [mmaps EXCEPT ![p][num[p]] = call[r].page] /\ num' = num
  BY <1>p DEF Store
<1>3. GoesOn(r, p, c)
  <2>1. Goes(r, c) /\ UNCHANGED <<map, raced, maps>>
    BY DEF Store
  <2>2. \A q \in Procs \ {p} : mmaps'[q] = mmaps[q] /\ num'[q] = num[q]
    BY <1>2 DEF Inv, TypeOK
  <2>3. c.page \in {call[r].page, Unused}
    BY <1>1
  <2> HIDE DEF c
  <2> QED
    BY <1>p, <1>1, <1>2, <2>1, <2>2, <2>3, GoingOn
<1>4. /\ mmaps'[p] = [mmaps[p] EXCEPT ![num[p]] = call[r].page]
      /\ mmaps[p] \in [Indexes -> Pages \cup {Unused}] /\ num[p] \in Indexes
      /\ mmaps' \in [Procs -> [Indexes -> Pages \cup {Unused}]]
  BY <1>1, <1>2, <1>3 DEF GoesOn, Inv, TypeOK, Indexes
<1>5. TypeOK'
  BY <1>2, <1>3, <1>4 DEF GoesOn, CallStep, Inv, TypeOK, Indexes
<1>6. InWindow'
  <2> SUFFICES ASSUME phase = "launched", NEW q \in Ranks
               PROVE  /\ \A b \in Pages : map'[q][b] = Free => b \in Window(q)
                      /\ \A i \in Indexes : mmaps'[q][i] \in Window(q) \cup {Unused}
                      /\ call'[q].page \in Window(q) \cup {Unused}
    BY <1>3 DEF InWindow, GoesOn, CallStep
  <2>1. /\ \A b \in Pages : map[q][b] = Free => b \in Window(q)
        /\ \A i \in Indexes : mmaps[q][i] \in Window(q) \cup {Unused}
        /\ call[q].page \in Window(q) \cup {Unused}
    BY DEF Inv, InWindow
  <2>2. q \in Procs
    BY DEF Procs
  <2>3. CASE q = r
    BY <1>1, <1>3, <1>4, <2>1, <2>3 DEF GoesOn
  <2>4. CASE q # r
    BY <1>3, <2>1, <2>2, <2>4 DEF GoesOn
  <2> QED
    BY <2>3, <2>4
<1>7. EverCounted'
  <2>1. \A q \in Procs, i \in Indexes : mmaps'[q][i] = mmaps[q][i] \/ mmaps'[q][i] = call[r].page
    BY <1>3, <1>4 DEF GoesOn
  <2>2. \A q \in Ranks : call'[q].page = call[q].page
    BY <1>1, <1>3 DEF GoesOn
  <2>3. Ever' \subseteq Ever
    BY <1>3, <2>1, <2>2 DEF Ever, GoesOn, CallStep
  <2> QED
    BY <1>3, <2>3, EverKept DEF GoesOn
<1>8. AllTabled'
  <2>0. ~raced => \A q \in Procs \ {p} : Tabled(q)'
    BY <1>3, GoesOnElsewhere
  <2> SUFFICES ASSUME ~raced PROVE Tabled(p)'
    <3>1. raced' = raced
      BY <1>3 DEF GoesOn
    <3> QED
      BY <2>0, <3>1 DEF AllTabled
  <2>1. /\ Callers(p) = {r} /\ Callers(p)' = {r} /\ Tabled(p) /\ Owned(p)' = Owned(p)
    BY <1>1, <1>3, CallersThen
  <2>2. \A i \in 0 .. num[p] - 1 : mmaps'[p][i] = mmaps[p][i]
    BY <1>4, OwnersAre DEF Indexes
  <2>3. Listed(p)' = Listed(p)
    BY <1>2, <2>2 DEF Listed
  <2>4. mmaps'[p][num'[p]] = call'[r].page
    BY <1>1, <1>2, <1>3, <1>4 DEF GoesOn
  <2>5. call'[r].page = call[r].page /\ call'[r].at = "stored" /\ maps' = maps
    BY <1>1, <1>3 DEF GoesOn
  <2>6. {call'[q].page : q \in Callers(p)'} = {call[q].page : q \in Callers(p)}
    BY <2>1, <2>5
  <2> QED
    BY <1>2, <2>1, <2>3, <2>4, <2>5, <2>6 DEF Tabled
<1> QED
  BY <1>3, <1>5, <1>6, <1>7, <1>8, GoesOnElsewhere DEF Inv

\* The counter is read and written: maps and tables are as they were.
LEMMA CountKeeps ==
  ASSUME Inv, NEW r \in Ranks, NEW p, NEW c, GoesOn(r, p, c),
         c.page \in {call[r].page, Unused}, mmaps' = mmaps,
         num' \in [Procs -> 0 .. MAX_TRACK - 1]
  PROVE  TypeOK' /\ InWindow' /\ EverCounted'
<1>1. TypeOK'
  BY DEF GoesOn, CallStep, Inv, TypeOK
<1>2. \A q \in Ranks : call'[q].page \in {call[q].page, Unused}
  BY DEF GoesOn
<1>3. InWindow'
  BY <1>2 DEF InWindow, Inv, GoesOn, CallStep
<1>4. Ever' \subseteq Ever
  <2>1. image' = image /\ mmaps' = mmaps
    BY DEF GoesOn, CallStep
  <2> QED
    BY <1>2, <2>1, OwnersAre DEF Ever
<1> QED
  BY <1>1, <1>3, <1>4, EverKept DEF GoesOn

LEMMA LoadNumInv ==
  ASSUME Inv, NEW r \in Ranks, LoadNum(r)
  PROVE  Inv'
<1>p. PICK p : p = In(r)
  OBVIOUS
<1>c. PICK c : c = [call[r] EXCEPT !.at = "loaded", !.n = num[In(r)]]
  OBVIOUS
<1>0. /\ call[r].at = "stored" /\ r \in up /\ num[p] \in 0 .. MAX_TRACK - 1
      /\ num' = num /\ mmaps' = mmaps
  BY <1>p, Runs DEF LoadNum, Calling, Indexes, memory
<1>1. /\ c \in [at : {"none", "mapped", "stored", "loaded"},
                page : Pages \cup {Unused}, n : 0 .. MAX_TRACK - 1]
      /\ c.page = call[r].page /\ c.at = "loaded" /\ c.n = num[p]
  BY <1>p, <1>c, <1>0 DEF Inv, TypeOK
<1>2. GoesOn(r, p, c)
  <2>1. Goes(r, c) /\ UNCHANGED <<map, raced, maps>>
    BY <1>c DEF LoadNum, memory
  <2> QED
    BY <1>p, <1>0, <1>1, <2>1, GoingOn
<1>3. TypeOK' /\ InWindow' /\ EverCounted'
  <2>1. num' \in [Procs -> 0 .. MAX_TRACK - 1] /\ c.page \in {call[r].page, Unused}
    BY <1>0, <1>1 DEF Inv, TypeOK
  <2> QED
    BY <1>0, <1>2, <2>1, CountKeeps
<1>4. AllTabled'
  <2> SUFFICES ASSUME ~raced PROVE Tabled(p)'
    BY <1>2, GoesOnElsewhere DEF AllTabled, GoesOn
  <2>1. /\ Callers(p) = {r} /\ Callers(p)' = {r} /\ Tabled(p) /\ Owned(p)' = Owned(p)
    BY <1>0, <1>1, <1>2, CallersThen
  <2>2. Listed(p)' = Listed(p)
    BY <1>0 DEF Listed
  <2>3. call'[r].page = call[r].page /\ call'[r].n = num[p] /\ maps' = maps
    BY <1>1, <1>2 DEF GoesOn
  <2>4. {call'[q].page : q \in Callers(p)'} = {call[q].page : q \in Callers(p)}
    BY <2>1, <2>3
  <2> QED
    BY <1>0, <2>1, <2>2, <2>3, <2>4 DEF Tabled
<1> QED
  BY <1>2, <1>3, <1>4, GoesOnElsewhere DEF Inv

LEMMA NextIndex ==
  ASSUME NEW n \in Indexes
  PROVE  NextNum(n) \in Indexes /\ (n < MaxMaps => NextNum(n) = n + 1)
<1>1. n \in Nat /\ MAX_TRACK \in Nat /\ MAX_TRACK > 0 /\ MaxMaps \in Nat /\ MaxMaps < MAX_TRACK
  BY OwnersAre DEF Indexes
<1> QED
  BY <1>1 DEF NextNum, Indexes

LEMMA StoreNumInv ==
  ASSUME Inv, NEW r \in Ranks, StoreNum(r)
  PROVE  Inv'
<1>p. PICK p : p = In(r)
  OBVIOUS
<1>0. /\ call[r].at = "loaded" /\ r \in up /\ p \in Procs /\ mmaps' = mmaps
      /\ num' = [num EXCEPT ![p] = NextNum(call[r].n)]
  BY <1>p, Runs DEF StoreNum, Calling
<1>1. NoCall \in [at : {"none", "mapped", "stored", "loaded"},
                  page : Pages \cup {Unused}, n : 0 .. MAX_TRACK - 1]
      /\ NoCall.page = Unused /\ NoCall.at = "none"
  BY OwnersAre DEF NoCall, Indexes
<1>2. call[r].n \in Indexes /\ NextNum(call[r].n) \in Indexes
  BY NextIndex DEF Inv, TypeOK, Indexes
<1>3. GoesOn(r, p, NoCall)
  <2>1. Goes(r, NoCall) /\ UNCHANGED <<map, raced, maps>>
    BY DEF StoreNum
  <2>2. \A q \in Procs \ {p} : mmaps'[q] = mmaps[q] /\ num'[q] = num[q]
    BY <1>0 DEF Inv, TypeOK
  <2> QED
    BY <1>p, <1>0, <1>1, <2>1, <2>2, GoingOn
<1>4. TypeOK' /\ InWindow' /\ EverCounted'
  <2>1. num' \in [Procs -> 0 .. MAX_TRACK - 1] /\ NoCall.page \in {call[r].page, Unused}
    BY <1>0, <1>1, <1>2 DEF Inv, TypeOK, Indexes
  <2> QED
    BY <1>0, <1>3, <2>1, CountKeeps
<1>5. AllTabled'
  <2> SUFFICES ASSUME ~raced PROVE Tabled(p)'
    BY <1>3, GoesOnElsewhere DEF AllTabled, GoesOn
  <2>1. /\ Callers(p) = {r} /\ Callers(p)' = {} /\ Tabled(p) /\ Owned(p)' = Owned(p)
    BY <1>0, <1>1, <1>3, CallersThen
  <2>2. /\ mmaps[p][num[p]] = call[r].page /\ call[r].n = num[p] /\ num[p] < maps
        /\ call[r].page \in Owned(p) /\ Listed(p) = Owned(p) \ {call[r].page}
    BY <1>0, <2>1 DEF Tabled
  <2>3. maps \in Nat /\ maps <= MaxMaps /\ maps' = maps /\ MaxMaps \in Nat /\ num[p] \in Nat
    BY <1>2, <1>3, <2>2, OwnersAre DEF GoesOn, Inv, TypeOK, Indexes
  <2>4. num'[p] = num[p] + 1
    BY <1>0, <1>2, <2>2, <2>3, NextIndex DEF Inv, TypeOK
  <2>5. call[r].page # Unused
    BY <2>2, OwnersAre DEF Owned
  <2>6. 0 .. num'[p] - 1 = (0 .. num[p] - 1) \cup {num[p]}
    BY <2>3, <2>4
  <2>7. Listed(p)' = Listed(p) \cup {call[r].page}
    BY <1>0, <2>2, <2>5, <2>6 DEF Listed
  <2> QED
    BY <2>1, <2>2, <2>3, <2>4, <2>7 DEF Tabled
<1> QED
  BY <1>3, <1>4, <1>5, GoesOnElsewhere DEF Inv
-----------------------------------------------------------------------------
(* The lower half, checkpoints, and the ends of jobs.                      *)

LEMMA LhMapInv ==
  ASSUME Inv, NEW p \in Procs, LhMap(p)
  PROVE  Inv'
<1>1. PICK a \in Pages : map[p][a] = Free /\ map' = [map EXCEPT ![p][a] = Lower]
  BY DEF LhMap, IsNext
<1>2. /\ map'[p] = [map[p] EXCEPT ![a] = Lower] /\ map[p] \in [Pages -> Owners]
      /\ \A q \in Procs \ {p} : map'[q] = map[q]
      /\ map' \in [Procs -> [Pages -> Owners]]
  BY <1>1 DEF Inv, TypeOK, Owners
<1>3. /\ UNCHANGED <<phase, mmaps, num, up, call, raced, image, tried, pending, maps>>
      /\ restarts' = restarts /\ lowerMaps' \in 0 .. MaxLowerMaps
  BY SpaceAssumption DEF LhMap, Inv, TypeOK
<1>4. phase \in {"launched", "joint"}
  BY Runs DEF LhMap
<1>5. TypeOK'
  BY <1>2, <1>3 DEF Inv, TypeOK
<1>6. OnlyRunningCall' /\ ImagesNamed' /\ TriedExist' /\ Loaded' /\ FirstRestartFits'
  BY <1>3, <1>4 DEF Inv, OnlyRunningCall, ImagesNamed, TriedExist, Loaded, FirstRestartFits
<1>7. \A q \in Procs : \A b \in Pages :
        map'[q][b] = map[q][b] \/ (map[q][b] = Free /\ map'[q][b] = Lower)
  BY <1>1, <1>2
<1>8. InWindow'
  BY <1>3, <1>7, OwnersAre DEF Inv, InWindow, Procs
<1>9. Ever' \subseteq Ever
  BY <1>3 DEF Ever
<1>10. ASSUME NEW q \in Procs, Tabled(q)
       PROVE  Tabled(q)'
  <2>1. Owned(q)' = Owned(q)
    BY <1>7, OwnersAre DEF Owned
  <2>2. Listed(q)' = Listed(q) /\ Callers(q)' = Callers(q)
    BY <1>3 DEF Listed, Callers, In
  <2> QED
    BY <1>3, <1>10, <2>1, <2>2 DEF Tabled
<1> QED
  BY <1>3, <1>5, <1>6, <1>8, <1>9, <1>10, EverKept DEF Inv, AllTabled

LEMMA CheckpointInv ==
  ASSUME Inv, NEW r \in Ranks, Checkpoint(r)
  PROVE  Inv'
<1>p. PICK p : p = In(r)
  OBVIOUS
<1>f. PICK f : f = FileOf(r)
  OBVIOUS
<1>0. /\ r \in up /\ p \in Procs /\ (phase = "launched" => p = r) /\ num[p] \in Indexes
      /\ phase \in {"launched", "joint"} /\ f \in Files
  BY <1>p, <1>f, Runs DEF Checkpoint, Calling, Files
<1>1. /\ UNCHANGED <<phase, memory, up, call, raced, tried, pending, counts>>
      /\ image' = [image EXCEPT ![f] =
                     [rank |-> r, pages |-> Listed(p), joint |-> phase = "joint"]]
  BY <1>p, <1>f DEF Checkpoint
<1>2. /\ image'[f] = [rank |-> r, pages |-> Listed(p), joint |-> phase = "joint"]
      /\ \A g \in Files \ {f} : image'[g] = image[g]
  BY <1>0, <1>1 DEF Inv, TypeOK
<1>3. /\ Listed(p) \subseteq Pages
      /\ \A a \in Listed(p) : \E i \in Indexes : mmaps[p][i] = a
  BY <1>0, ListedIsIndexed
<1>4. TypeOK'
  <2>1. image' \in [Files -> Image \cup {NoImage}]
    BY <1>0, <1>1, <1>3 DEF Inv, TypeOK, Image
  <2> QED
    BY <1>1, <2>1 DEF Inv, TypeOK, memory, counts
<1>5. OnlyRunningCall' /\ InWindow' /\ Loaded' /\ FirstRestartFits'
  BY <1>0, <1>1 DEF Inv, OnlyRunningCall, InWindow, Loaded, FirstRestartFits, memory
<1>6. image'[f] # NoImage
  BY <1>2, OwnersAre DEF NoImage
<1>7. TriedExist'
  BY <1>1, <1>2, <1>6 DEF Inv, TypeOK, TriedExist
<1>8. ImagesNamed'
  <2> SUFFICES ASSUME NEW g \in Files, image'[g] # NoImage
               PROVE  /\ image'[g].rank \in Ranks /\ FileOf(image'[g].rank) = g
                      /\ image'[g].pages \subseteq Pages
                      /\ ~image'[g].joint => image'[g].pages \subseteq Window(image'[g].rank)
    BY DEF ImagesNamed
  <2>1. CASE g = f
    <3>1. phase = "launched" => Listed(p) \subseteq Window(r)
      BY <1>0, <1>3, OwnersAre, WindowsArePages DEF Inv, InWindow
    <3>2. ~image'[g].joint => phase # "joint"
      <4>1. SUFFICES ASSUME phase = "joint" PROVE image'[g].joint = TRUE
        OBVIOUS
      <4>2. (phase = "joint") = TRUE
        BY <4>1
      <4>3. image'[g] = [rank |-> r, pages |-> Listed(p), joint |-> TRUE]
        BY <1>2, <2>1, <4>2, Zenon
      <4> QED
        BY <4>3
    <3>3. image'[g].rank = r /\ image'[g].pages = Listed(p)
      BY <1>2, <2>1
    <3> QED
      BY <1>f, <1>0, <1>3, <2>1, <3>1, <3>2, <3>3
  <2>2. CASE g # f
    BY <1>2, <2>2 DEF Inv, ImagesNamed
  <2> QED
    BY <2>1, <2>2
<1>9. Ever' \subseteq Ever
  <2>1. \A g \in Files : image'[g].pages \subseteq image[g].pages \cup Listed(p)
    BY <1>2
  <2> QED
    BY <1>0, <1>1, <1>3, <2>1 DEF Ever, memory
<1>10. AllTabled'
  <2>1. ASSUME NEW q \in Procs, Tabled(q)
        PROVE  Tabled(q)'
    BY <1>1, <2>1 DEF Tabled, Listed, Owned, Callers, In, memory, counts
  <2> QED
    BY <1>1, <2>1 DEF Inv, AllTabled
<1> QED
  BY <1>1, <1>4, <1>5, <1>7, <1>8, <1>9, <1>10, EverKept DEF Inv, counts

LEMMA DieInv ==
  ASSUME Inv, Die
  PROVE  Inv'
<1>1. /\ phase' = "down" /\ up' = {} /\ tried' = {} /\ pending' = {} /\ raced' = FALSE
      /\ call' = [r \in Ranks |-> NoCall]
      /\ map' = [p \in Procs |-> Started] /\ mmaps' = [p \in Procs |-> NoTable]
      /\ num' = [p \in Procs |-> 0] /\ UNCHANGED <<image, maps, lowerMaps, restarts>>
  BY DEF Die, counts
<1>2. TypeOK'
  <2>1. map' \in [Procs -> [Pages -> Owners]] /\ num' \in [Procs -> 0 .. MAX_TRACK - 1]
    BY <1>1, OwnersAre DEF Indexes
  <2>2. mmaps' \in [Procs -> [0 .. MAX_TRACK - 1 -> Pages \cup {Unused}]]
    BY <1>1, OwnersAre DEF Indexes
  <2>3. NoCall \in [at : {"none", "mapped", "stored", "loaded"},
                   page : Pages \cup {Unused}, n : 0 .. MAX_TRACK - 1]
    BY OwnersAre DEF NoCall, Indexes
  <2> QED
    BY <1>1, <2>1, <2>2, <2>3 DEF Inv, TypeOK
<1>3. OnlyRunningCall' /\ InWindow' /\ ImagesNamed' /\ TriedExist' /\ FirstRestartFits'
  BY <1>1 DEF Inv, OnlyRunningCall, InWindow, ImagesNamed, TriedExist, FirstRestartFits
<1>4. Loaded'
  BY <1>1 DEF Loaded, Procs
<1>5. Ever' \subseteq Ever
  BY <1>1, OwnersAre DEF Ever, NoTable, NoCall, Indexes
<1>6. AllTabled'
  <2> SUFFICES ASSUME NEW p \in Procs PROVE Tabled(p)'
    BY DEF AllTabled
  <2>1. num'[p] = 0 /\ num'[p] <= maps'
    BY <1>1 DEF Inv, TypeOK
  <2>2. Listed(p)' = {} /\ Owned(p)' = {} /\ Callers(p)' = {}
    BY <1>1, <2>1, OwnersAre DEF Listed, Owned, Callers
  <2> QED
    BY <2>1, <2>2 DEF Tabled
<1> QED
  BY <1>1, <1>2, <1>3, <1>4, <1>5, <1>6, EverKept DEF Inv

LEMMA RestartInv ==
  ASSUME Inv, NEW fs \in SUBSET Files, Restart(fs)
  PROVE  Inv'
<1>1. /\ phase = "down" /\ phase' = "restoring" /\ tried' = fs /\ pending' = fs
      /\ \A f \in fs : image[f] # NoImage
      /\ UNCHANGED <<map, mmaps, num, up, call, raced, image, maps, lowerMaps>>
      /\ restarts' \in 0 .. MaxRestarts
  BY SpaceAssumption DEF Restart, memory, Inv, TypeOK
<1>2. TypeOK' /\ OnlyRunningCall' /\ InWindow' /\ ImagesNamed' /\ TriedExist' /\ FirstRestartFits'
  BY <1>1 DEF Inv, TypeOK, OnlyRunningCall, InWindow, ImagesNamed, TriedExist, FirstRestartFits
<1>3. Loaded'
  <2>1. map[Joint] = Started /\ num[Joint] = 0 /\ mmaps[Joint] = NoTable /\ ~raced
    BY <1>1 DEF Inv, Loaded
  <2>2. Cardinality(Listed(Joint)') = 0
    BY <1>1, <2>1, FS_EmptySet DEF Listed
  <2> QED
    BY <1>1, <2>1, <2>2 DEF Loaded, NoTable, Indexes
<1>4. Ever' \subseteq Ever
  BY <1>1 DEF Ever
<1>5. AllTabled'
  <2>1. up = {}
    BY <1>1 DEF Inv, OnlyRunningCall
  <2>2. \A p \in Procs : Tabled(p) => Tabled(p)'
    BY <1>1, <2>1 DEF Tabled, Listed, Owned, Callers
  <2> QED
    BY <1>1, <2>2 DEF Inv, AllTabled
<1> QED
  BY <1>1, <1>2, <1>3, <1>4, <1>5, EverKept DEF Inv

LEMMA StartRanksInv ==
  ASSUME Inv, StartRanks
  PROVE  Inv'
<1>1. /\ phase = "restoring" /\ phase' = "joint" /\ up' = {image[f].rank : f \in tried}
      /\ UNCHANGED <<map, mmaps, num, call, raced, image, tried, pending, maps, lowerMaps, restarts>>
  BY DEF StartRanks, memory, counts
<1>2. up = {} /\ \A r \in Ranks : call[r] = NoCall
  BY <1>1 DEF Inv, OnlyRunningCall
<1>3. up' \subseteq Ranks
  BY <1>1 DEF Inv, TypeOK, TriedExist, ImagesNamed
<1>4. /\ TypeOK' /\ OnlyRunningCall' /\ InWindow' /\ ImagesNamed' /\ TriedExist'
      /\ Loaded' /\ FirstRestartFits'
  BY <1>1, <1>2, <1>3
     DEF Inv, TypeOK, OnlyRunningCall, InWindow, ImagesNamed, TriedExist, Loaded, FirstRestartFits
<1>5. Ever' \subseteq Ever
  BY <1>1 DEF Ever
<1>6. \A p \in Procs : Callers(p) = {} /\ Callers(p)' = {}
  BY <1>1, <1>2, <1>3 DEF Callers, NoCall
<1>7. \A p \in Procs : Tabled(p) => Tabled(p)'
  BY <1>1, <1>6 DEF Tabled, Listed, Owned
<1> QED
  BY <1>1, <1>4, <1>5, <1>7, EverKept DEF Inv, AllTabled
-----------------------------------------------------------------------------
(* Restart.                                                                *)

\* Images of launched ranks fit: what the process has is its lower half, which
\* is in no window, and images of other windows.
LEMMA RefuseInv ==
  ASSUME Inv, NEW f \in Files, Refuse(f)
  PROVE  Inv'
<1>1. /\ phase = "restoring" /\ f \in pending /\ ~Fits(f) /\ phase' = "refused"
      /\ UNCHANGED <<map, mmaps, num, up, call, raced, image, tried, pending, maps, lowerMaps, restarts>>
  BY DEF Refuse, memory, counts
<1>2. TypeOK' /\ OnlyRunningCall' /\ InWindow' /\ ImagesNamed' /\ TriedExist' /\ Loaded'
  BY <1>1 DEF Inv, TypeOK, OnlyRunningCall, InWindow, ImagesNamed, TriedExist, Loaded
<1>3. Ever' \subseteq Ever
  BY <1>1 DEF Ever
<1>4. AllTabled'
  <2>1. up = {}
    BY <1>1 DEF Inv, OnlyRunningCall
  <2>2. \A p \in Procs : Tabled(p) => Tabled(p)'
    BY <1>1, <2>1 DEF Tabled, Listed, Owned, Callers
  <2> QED
    BY <1>1, <2>2 DEF Inv, AllTabled
<1>5. ASSUME \A g \in tried : ~image[g].joint
      PROVE  FALSE
  <2>1. /\ tried \subseteq Files /\ pending \subseteq tried
        /\ \A g \in tried : /\ image[g].rank \in Ranks /\ FileOf(image[g].rank) = g
                            /\ image[g].pages \subseteq Window(image[g].rank)
    BY <1>5 DEF Inv, TypeOK, TriedExist, ImagesNamed
  <2>2. PICK a \in image[f].pages : map[Joint][a] # Free
    BY <1>1 DEF Fits
  <2>3. a \in Window(image[f].rank) /\ a \in Pages /\ Started[a] = Free
    BY <1>1, <2>1, WindowsArePages
  <2>4. PICK g \in tried \ pending : a \in image[g].pages
    BY <1>1, <2>2, <2>3 DEF Inv, Loaded
  <2>5. image[g].rank # image[f].rank /\ a \in Window(image[g].rank)
    BY <1>1, <2>1, <2>4
  <2> QED
    BY <1>1, <2>1, <2>3, <2>4, <2>5, WindowsApart
<1>6. FirstRestartFits'
  BY <1>1, <1>5 DEF FirstRestartFits
<1> QED
  BY <1>1, <1>2, <1>3, <1>4, <1>6, EverKept DEF Inv

\* The pages of an image go to places of their own, one after another.
LEMMA Places ==
  ASSUME NEW s \in SUBSET Nat, IsFiniteSet(s), NEW a \in s
  PROVE  /\ Cardinality(s) \in Nat /\ Place(s, a) \in Nat /\ Place(s, a) < Cardinality(s)
         /\ \A b \in s : a # b => Place(s, a) # Place(s, b)
<1> DEFINE Below(c) == {b \in s : b < c}
<1>1. \A c : IsFiniteSet(Below(c)) /\ Cardinality(Below(c)) \in Nat
  <2> SUFFICES ASSUME NEW c PROVE IsFiniteSet(Below(c)) /\ Cardinality(Below(c)) \in Nat
    OBVIOUS
  <2>1. IsFiniteSet(Below(c))
    BY FS_Subset
  <2> QED
    BY <2>1, FS_CardinalityType
<1>2. ASSUME NEW c \in s, NEW d \in s, c < d
      PROVE  Place(s, c) < Place(s, d)
  <2>1. Below(c) \in SUBSET Below(d) /\ c \in Below(d) /\ c \notin Below(c)
    <3>1. c \in Nat /\ d \in Nat /\ \A b \in s : b \in Nat
      OBVIOUS
    <3>2. \A b \in s : b < c => b < d
      BY <1>2, <3>1
    <3>3. c \notin Below(c)
      BY <3>1
    <3> QED
      BY <1>2, <3>2, <3>3
  <2>2. Cardinality(Below(c)) <= Cardinality(Below(d))
        /\ Cardinality(Below(c)) # Cardinality(Below(d))
    <3>1. IsFiniteSet(Below(d))
      BY <1>1
    <3> HIDE DEF Below
    <3> QED
      BY <2>1, <3>1, FS_Subset
  <2> QED
    BY <1>1, <2>2 DEF Place
<1>3. Cardinality(s) \in Nat
  BY FS_CardinalityType
<1>4. Place(s, a) < Cardinality(s)
  <2>1. Below(a) \in SUBSET s /\ a \notin Below(a)
    OBVIOUS
  <2>2. Cardinality(Below(a)) <= Cardinality(s) /\ Cardinality(Below(a)) # Cardinality(s)
    BY <2>1, FS_Subset
  <2> QED
    BY <1>1, <1>3, <2>2 DEF Place
<1>5. \A c \in s : Place(s, c) \in Nat
  BY <1>1 DEF Place
<1>6. ASSUME NEW b \in s, a # b
      PROVE  Place(s, a) # Place(s, b)
  <2>1. a < b \/ b < a
    BY <1>6
  <2> QED
    BY <1>2, <1>5, <2>1
<1> QED
  BY <1>3, <1>4, <1>5, <1>6

\* The entries before n stay, the pages of s come behind them, and nothing else.
LEMMA RecordedIs ==
  ASSUME NEW t \in [Indexes -> Pages \cup {Unused}], NEW n \in Nat, NEW s \in SUBSET Pages,
         IsFiniteSet(s), n + Cardinality(s) \in Indexes
  PROVE  LET u == Recorded(t, n, s) IN
         /\ u \in [Indexes -> Pages \cup {Unused}]
         /\ \A i \in Indexes : i < n => u[i] = t[i]
         /\ \A i \in Indexes : u[i] # t[i] => u[i] \in s
         /\ \A i \in Indexes : i >= n + Cardinality(s) => u[i] = t[i]
         /\ \A a \in s : \E i \in Indexes : n <= i /\ i < n + Cardinality(s) /\ u[i] = a
<1> DEFINE u == Recorded(t, n, s)
           At(a) == n + Place(s, a)
<1>1. s \in SUBSET Nat
  BY SpaceAssumption DEF Pages
<1>2. /\ Cardinality(s) \in Nat
      /\ \A a \in s : Place(s, a) \in Nat /\ Place(s, a) < Cardinality(s)
      /\ \A a, b \in s : a # b => Place(s, a) # Place(s, b)
  BY <1>1, FS_CardinalityType, Places
<1>3. /\ \A a \in s : At(a) \in Nat /\ n <= At(a) /\ At(a) < n + Cardinality(s)
      /\ \A a, b \in s : At(a) = At(b) => a = b
  BY <1>2
<1>4. \A i \in Indexes : i \in Nat
  BY DEF Indexes
<1>5. \A a \in s : At(a) \in Indexes
  BY <1>2, <1>3, OwnersAre DEF Indexes
<1>6. u = [i \in Indexes |->
             IF \E a \in s : At(a) = i THEN CHOOSE a \in s : At(a) = i ELSE t[i]]
  BY DEF Recorded, Indexes
<1> HIDE DEF At
<1>7. \A i \in Indexes : (\E a \in s : At(a) = i) => u[i] \in s /\ At(u[i]) = i
  BY <1>6
<1>8. \A i \in Indexes : ~(\E a \in s : At(a) = i) => u[i] = t[i]
  BY <1>6
<1> HIDE DEF u
<1>9. u \in [Indexes -> Pages \cup {Unused}]
  <2>1. \A i \in Indexes : u[i] \in Pages \cup {Unused}
    BY <1>7, <1>8
  <2> QED
    BY <1>6, <2>1
<1>10. \A a \in s : u[At(a)] = a
  BY <1>3, <1>5, <1>7
<1>11. \A i \in Indexes : i < n \/ i >= n + Cardinality(s) => ~(\E a \in s : At(a) = i)
  BY <1>2, <1>3, <1>4
<1> QED
  BY <1>3, <1>5, <1>7, <1>8, <1>9, <1>10, <1>11 DEF u

LEMMA LoadInv ==
  ASSUME Inv, NEW f \in Files, Load(f)
  PROVE  Inv'
<1>s. PICK s : s = image[f].pages
  OBVIOUS
<1>n. PICK n : n = num[Joint]
  OBVIOUS
<1> DEFINE L == Listed(Joint)
<1>1. /\ phase = "restoring" /\ f \in pending /\ pending' = pending \ {f}
      /\ \A a \in s : map[Joint][a] = Free
      /\ map' = [map EXCEPT ![Joint] =
                   [a \in Pages |-> IF a \in s THEN image[f].rank ELSE @[a]]]
      /\ mmaps' = [mmaps EXCEPT ![Joint] = Recorded(@, n, s)]
      /\ num' = [num EXCEPT ![Joint] = n + Cardinality(s)]
      /\ UNCHANGED <<phase, up, call, raced, image, tried, maps, lowerMaps, restarts>>
  BY <1>s, <1>n DEF Load, Fits, After, counts
<1>2. /\ up = {} /\ ~raced /\ \A p \in Procs : Callers(p) = {} /\ Callers(p)' = {}
      /\ f \in tried /\ f \in Files /\ image[f].rank \in Ranks /\ s \subseteq Pages
  BY <1>s, <1>1
     DEF Inv, TypeOK, OnlyRunningCall, Loaded, Callers, TriedExist, ImagesNamed
<1>3. /\ Joint \in Procs /\ n \in Indexes /\ n \in Nat /\ n = Cardinality(L)
      /\ mmaps[Joint] \in [Indexes -> Pages \cup {Unused}]
      /\ map[Joint] \in [Pages -> Owners] /\ maps \in Nat /\ maps <= MaxMaps
  BY <1>n, <1>1, OwnersAre DEF Inv, TypeOK, Loaded, Procs, Indexes
<1>4. /\ map'[Joint] = [a \in Pages |-> IF a \in s THEN image[f].rank ELSE map[Joint][a]]
      /\ mmaps'[Joint] = Recorded(mmaps[Joint], n, s) /\ num'[Joint] = n + Cardinality(s)
      /\ \A p \in Procs \ {Joint} : map'[p] = map[p] /\ mmaps'[p] = mmaps[p] /\ num'[p] = num[p]
  BY <1>1, <1>3 DEF Inv, TypeOK
<1>5. L = Owned(Joint) /\ L \cap s = {} /\ L \subseteq Ever /\ s \subseteq Ever
  <2>1. L = Owned(Joint)
    <3>1. Tabled(Joint) /\ Callers(Joint) = {}
      BY <1>2, <1>3 DEF Inv, AllTabled
    <3> QED
      BY <3>1 DEF Tabled
  <2>2. L \cap s = {}
    BY <1>1, <2>1, OwnersAre DEF Owned
  <2>3. L \subseteq Ever
    BY <1>3, ListedIsIndexed DEF Ever
  <2> QED
    BY <1>s, <1>2, <2>1, <2>2, <2>3 DEF Ever
<1>6. /\ IsFiniteSet(s) /\ Cardinality(s) \in Nat /\ IsFiniteSet(L \cup s)
      /\ Cardinality(L \cup s) = n + Cardinality(s)
      /\ n + Cardinality(s) <= maps
  <2>1. IsFiniteSet(s) /\ IsFiniteSet(L)
    BY <1>5, EverFinite, FS_Subset
  <2>2. Cardinality(s) \in Nat /\ Cardinality(L \cap s) = 0
    BY <1>5, <2>1, FS_CardinalityType, FS_EmptySet
  <2>3. /\ IsFiniteSet(L \cup s)
        /\ Cardinality(L \cup s) = Cardinality(L) + Cardinality(s) - Cardinality(L \cap s)
    BY <2>1, FS_Union
  <2>4. Cardinality(L \cup s) = n + Cardinality(s)
    BY <1>3, <2>2, <2>3
  <2>5. L \cup s \in SUBSET Ever
    BY <1>5
  <2>6. Cardinality(L \cup s) <= Cardinality(Ever)
    BY <2>5, EverFinite, FS_Subset
  <2>7. Cardinality(Ever) <= maps
    BY DEF Inv, EverCounted
  <2> QED
    BY <1>3, <2>1, <2>2, <2>3, <2>4, <2>6, <2>7, EverFinite
<1>7. n + Cardinality(s) \in Indexes /\ num'[Joint] \in Nat
  BY <1>3, <1>4, <1>6, OwnersAre DEF Indexes
<1>8. PICK u : u = mmaps'[Joint]
  OBVIOUS
<1>9. /\ u \in [Indexes -> Pages \cup {Unused}]
      /\ \A i \in Indexes : i < n => u[i] = mmaps[Joint][i]
      /\ \A i \in Indexes : u[i] # mmaps[Joint][i] => u[i] \in s
      /\ \A i \in Indexes : i >= n + Cardinality(s) => u[i] = mmaps[Joint][i]
      /\ \A a \in s : \E i \in Indexes : n <= i /\ i < n + Cardinality(s) /\ u[i] = a
  BY <1>2, <1>3, <1>4, <1>6, <1>7, <1>8, RecordedIs
<1>10. TypeOK'
  <2>1. map'[Joint] \in [Pages -> Owners] /\ num'[Joint] \in 0 .. MAX_TRACK - 1
    BY <1>2, <1>3, <1>4, <1>7 DEF Owners, Indexes
  <2>2. map' \in [Procs -> [Pages -> Owners]] /\ num' \in [Procs -> 0 .. MAX_TRACK - 1]
    BY <1>1, <1>4, <2>1 DEF Inv, TypeOK
  <2>3. mmaps' \in [Procs -> [0 .. MAX_TRACK - 1 -> Pages \cup {Unused}]]
    BY <1>1, <1>4, <1>8, <1>9 DEF Inv, TypeOK, Indexes
  <2> QED
    BY <1>1, <2>2, <2>3 DEF Inv, TypeOK
<1>11. OnlyRunningCall' /\ InWindow' /\ ImagesNamed' /\ TriedExist' /\ FirstRestartFits'
  BY <1>1 DEF Inv, OnlyRunningCall, InWindow, ImagesNamed, TriedExist, FirstRestartFits
<1>12. Listed(Joint)' = L \cup s
  <2>m. PICK m \in Nat : m = n + Cardinality(s)
    BY <1>3, <1>6
  <2>0. /\ \A a : a \in Listed(Joint)' <=>
              a # Unused /\ \E i \in 0 .. m - 1 : a = u[i]
        /\ \A a : a \in L <=> a # Unused /\ \E i \in 0 .. n - 1 : a = mmaps[Joint][i]
    <3>1. num'[Joint] = m /\ mmaps'[Joint] = u
      BY <1>4, <1>8, <2>m
    <3>2. \A a : a \in Listed(Joint)' <=>
            a # Unused /\ \E i \in 0 .. num'[Joint] - 1 : a = mmaps'[Joint][i]
      BY DEF Listed
    <3>3. \A a : a \in L <=> a # Unused /\ \E i \in 0 .. num[Joint] - 1 : a = mmaps[Joint][i]
      BY DEF Listed
    <3> QED
      BY <1>n, <3>1, <3>2, <3>3
  <2>1. \A i \in 0 .. m - 1 : i \in Indexes /\ i \in Nat
    BY <1>7, <2>m, OwnersAre DEF Indexes
  <2>2. \A i \in Indexes : i >= n => mmaps[Joint][i] = Unused
    BY <1>n, <1>1 DEF Inv, Loaded
  <2>3. ASSUME NEW i \in 0 .. m - 1, u[i] # Unused
        PROVE  u[i] \in L \cup s
    <3>1. i \in Indexes /\ i \in Nat
      BY <2>1
    <3>2. CASE u[i] = mmaps[Joint][i]
      <4>1. i < n
        BY <1>3, <2>2, <2>3, <3>1, <3>2
      <4>2. i \in 0 .. n - 1
        BY <1>3, <3>1, <4>1
      <4> HIDE DEF L
      <4> QED
        BY <2>0, <2>3, <3>2, <4>2
    <3> QED
      BY <1>9, <3>1, <3>2
  <2>4. ASSUME NEW a \in L
        PROVE  a \in Listed(Joint)'
    <3>1. PICK i \in 0 .. n - 1 : a = mmaps[Joint][i] /\ a # Unused
      BY <2>0
    <3>2. i \in 0 .. m - 1 /\ i < n
      BY <1>3, <1>6, <2>m
    <3>3. u[i] = a
      BY <1>9, <2>1, <3>1, <3>2
    <3> QED
      BY <2>0, <3>1, <3>2, <3>3
  <2>5. ASSUME NEW a \in s
        PROVE  a \in Listed(Joint)'
    <3>1. PICK i \in Indexes : n <= i /\ i < m /\ u[i] = a
      BY <1>9, <2>m
    <3>2. i \in 0 .. m - 1 /\ a # Unused
      BY <1>2, <1>3, <2>m, <3>1, OwnersAre DEF Indexes
    <3> QED
      BY <2>0, <3>1, <3>2
  <2> HIDE DEF L
  <2> QED
    BY <2>0, <2>3, <2>4, <2>5
<1>13. Loaded'
  <2>1. num'[Joint] = Cardinality(Listed(Joint)')
    BY <1>4, <1>6, <1>12
  <2>2. \A i \in Indexes : i >= num'[Joint] => mmaps'[Joint][i] = Unused
    <3>1. \A i \in Indexes : i >= n => mmaps[Joint][i] = Unused
      BY <1>n, <1>1 DEF Inv, Loaded
    <3> QED
      BY <1>3, <1>4, <1>6, <1>8, <1>9, <3>1 DEF Indexes
  <2>3. \A a \in Pages : \/ map'[Joint][a] = Started[a]
                         \/ \E g \in tried \ pending' : a \in image[g].pages
    <3>1. f \in tried \ pending' /\ tried \ pending \subseteq tried \ pending'
      BY <1>1, <1>2
    <3>2. \A a \in Pages : \/ map[Joint][a] = Started[a]
                           \/ \E g \in tried \ pending : a \in image[g].pages
      BY <1>1 DEF Inv, Loaded
    <3> QED
      BY <1>s, <1>4, <3>1, <3>2
  <2> QED
    BY <1>1, <1>2, <2>1, <2>2, <2>3 DEF Loaded
<1>14. Ever' \subseteq Ever
  <2>1. \A p \in Procs, i \in Indexes : mmaps'[p][i] = mmaps[p][i] \/ mmaps'[p][i] \in s
    BY <1>4, <1>8, <1>9
  <2> QED
    BY <1>1, <1>5, <2>1 DEF Ever
<1>15. AllTabled'
  <2> SUFFICES ASSUME NEW p \in Procs PROVE Tabled(p)'
    BY DEF AllTabled
  <2>1. Tabled(p) /\ Callers(p) = {} /\ Callers(p)' = {}
    BY <1>2 DEF Inv, AllTabled
  <2>2. CASE p = Joint
    <3>1. Owned(Joint)' = Owned(Joint) \cup s
      BY <1>2, <1>4 DEF Owned
    <3>2. num'[p] <= maps'
      BY <1>1, <1>4, <1>6, <2>2
    <3> QED
      BY <1>5, <1>12, <2>1, <2>2, <3>1, <3>2 DEF Tabled
  <2>3. CASE p # Joint
    <3>1. Listed(p)' = Listed(p) /\ Owned(p)' = Owned(p)
      BY <1>4, <2>3 DEF Listed, Owned
    <3> QED
      BY <1>1, <1>4, <2>1, <2>3, <3>1 DEF Tabled
  <2> QED
    BY <2>2, <2>3
<1> QED
  BY <1>1, <1>10, <1>11, <1>13, <1>14, <1>15, EverKept DEF Inv
-----------------------------------------------------------------------------
(* What holds of every job.                                                *)

LEMMA InvStep == Inv /\ [Next]_vars => Inv'
<1> SUFFICES ASSUME Inv, [Next]_vars PROVE Inv'
  OBVIOUS
<1>1. ASSUME NEW r \in Ranks,
             Mmap(r) \/ Store(r) \/ LoadNum(r) \/ StoreNum(r) \/ Checkpoint(r)
      PROVE  Inv'
  BY <1>1, MmapInv, StoreInv, LoadNumInv, StoreNumInv, CheckpointInv
<1>2. ASSUME NEW p \in Procs, LhMap(p)
      PROVE  Inv'
  BY <1>2, LhMapInv
<1>3. CASE Die \/ StartRanks
  BY <1>3, DieInv, StartRanksInv
<1>4. ASSUME NEW fs \in SUBSET Files, Restart(fs)
      PROVE  Inv'
  BY <1>4, RestartInv
<1>5. ASSUME NEW f \in Files, Load(f) \/ Refuse(f)
      PROVE  Inv'
  BY <1>5, LoadInv, RefuseInv
<1>6. CASE UNCHANGED vars
  BY <1>6 DEF vars, memory, counts, Inv, TypeOK, OnlyRunningCall, InWindow, ImagesNamed,
              TriedExist, Loaded, EverCounted, Ever, AllTabled, Tabled, Listed, Owned,
              Callers, In, FirstRestartFits
<1> QED
  BY <1>1, <1>2, <1>3, <1>4, <1>5, <1>6 DEF Next

LEMMA Invariant == Spec => []Inv
BY InitInv, InvStep, PTL DEF Spec

\* For any ranks and windows the state of a job is well typed: among others,
\* the number of regions that a restart counts together stays in the table.
THEOREM TypeCorrect == Spec => []TypeOK
<1>1. Inv => TypeOK
  BY DEF Inv
<1> QED
  BY <1>1, Invariant, PTL

\* However many ranks, wherever the windows: a restart from images of launched
\* ranks is never refused.
THEOREM FirstRestartsFit == Spec => []FirstRestartFits
<1>1. Inv => FirstRestartFits
  BY DEF Inv
<1> QED
  BY <1>1, Invariant, PTL

\* The tables are right as long as no two ranks of a process are in mmap at
\* once, whatever was restored together.
THEOREM TablesAreRight == Spec => []OwnIsListed
<1>1. ASSUME Inv, phase \in {"launched", "joint"}, ~raced, NEW p \in Procs,
             \A r \in up : In(r) = p => call[r].at = "none"
      PROVE  Listed(p) = {a \in Pages : map[p][a] \in Ranks}
  <2>1. Tabled(p) /\ Callers(p) = {}
    BY <1>1 DEF Inv, AllTabled, Callers
  <2> QED
    BY <2>1 DEF Tabled, Owned
<1>2. Inv => OwnIsListed
  BY <1>1 DEF OwnIsListed
<1> QED
  BY <1>2, Invariant, PTL
=============================================================================
