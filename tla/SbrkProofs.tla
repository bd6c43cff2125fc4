----------------------------- MODULE SbrkProofs -----------------------------
(***************************************************************************)
(* Proofs about SbrkWrapper, for every page size, reservation, layout of   *)
(* the address space and set of increments.                                *)
(***************************************************************************)
EXTENDS SbrkWrapper, PageArithProofs

\* While the lower half knows the break it is the program's, and the end is
\* the end of a page at or above it.  A restart loses both for good.
BreakKnown ==
  \/ curbrk = NULL /\ endOfHeap = NULL /\ restarts > 0
  \/ /\ restarts = 0
     /\ curbrk = programBrk
     /\ curbrk <= endOfHeap
     /\ endOfHeap <= Start(TopPage)
     /\ \E k \in Nat : endOfHeap = Start(k)

\* Everything below the end is mapped, and untouched above the break.
EndIsMapped ==
  \A p \in Pages :
    Start(p) >= heapStart /\ Start(p) < endOfHeap =>
      /\ mem[p] \in {"zero", "data"}
      /\ Start(p) >= programBrk => mem[p] = "zero"

BreakAboveStart == programBrk >= heapStart

IInv == TypeOK /\ BreakKnown /\ EndIsMapped /\ BreakAboveStart /\ GrantedIsMapped

LEMMA StartTypes ==
  /\ \A p \in Nat : Start(p) \in Nat
  /\ heapStart \in Nat \ {0}
  /\ Pages \subseteq Nat
BY LayoutAssumption, PageSizeAssumption DEF Start, heapStart, Pages

LEMMA InitIInv == Init => IInv
<1> SUFFICES ASSUME Init PROVE IInv
  OBVIOUS
<1> USE LayoutAssumption, StartTypes
<1> DEFINE end == Start(Base + HEAP_PAGES)
<1>1. endOfHeap = end
  <2>1. ROUND_UP(end) <= end
    BY RoundUpBelow DEF Start
  <2>2. end <= ROUND_UP(end) /\ ROUND_UP(end) \in Nat
    BY RoundUp
  <2> QED
    BY <2>1, <2>2 DEF Init
<1>2. heapStart <= end /\ end <= Start(TopPage)
  BY PageSizeAssumption DEF Start, heapStart
<1>3. mem \in [Pages -> Contents]
  BY DEF Init, Contents, Reservation
<1>4. \A p \in Pages : Start(p) >= heapStart /\ Start(p) < end =>
                         p \in Reservation \ {Base}
  <2> TAKE p \in Pages
  <2> HAVE Start(p) >= heapStart /\ Start(p) < end
  <2>1. p < Base + HEAP_PAGES
    BY PageOrder DEF Start
  <2>2. ~(p < Base + 1)
    BY PageOrder DEF Start, heapStart
  <2> QED
    BY <2>1, <2>2 DEF Reservation
<1>5. \A p \in Reservation \ {Base} : p \in Pages /\ mem[p] = "zero"
  BY DEF Init, Reservation, Pages
<1>6. TypeOK
  BY <1>1, <1>3 DEF Init, TypeOK, NULL
<1>7. BreakKnown
  BY <1>1, <1>2 DEF Init, BreakKnown
<1>8. EndIsMapped
  BY <1>1, <1>4, <1>5 DEF EndIsMapped
<1>9. GrantedIsMapped
  BY <1>2, <1>8, <1>1 DEF GrantedIsMapped, Init, EndIsMapped, Live
<1> QED
  BY <1>6, <1>7, <1>8, <1>9 DEF IInv, Init, BreakAboveStart

\* A failing call changes nothing the program can see but the answer.
LEMMA FailsIInv ==
  ASSUME IInv, Fails \/ SbrkQuery
  PROVE  IInv' /\ UNCHANGED <<mem, programBrk>>
<1>1. endOfHeap' = endOfHeap
  BY StartTypes DEF IInv, TypeOK, BreakKnown, BreakAboveStart, Fails,
                    SbrkQuery, KnownEnd, NULL
<1>2. ret' \in Nat \cup {Error}
  BY DEF IInv, TypeOK, Fails, SbrkQuery, Error
<1> QED
  BY <1>1, <1>2 DEF IInv, TypeOK, BreakKnown, EndIsMapped, BreakAboveStart,
                    GrantedIsMapped, Fails, SbrkQuery

\* What holds of the new break when a call succeeds.
LEMMA MovesBreak ==
  ASSUME IInv, NEW i \in Increments, Legal(i), ~Overflows(i), Moves(i),
         curbrk = programBrk, programBrk + i <= Start(TopPage), restarts = 0
  PROVE  /\ curbrk' = programBrk' /\ programBrk' \in Nat /\ endOfHeap' \in Nat
         /\ programBrk' >= heapStart
         /\ BreakKnown'
         /\ ret' \in Nat
         /\ \A p \in Pages : Start(p) < endOfHeap' => Start(p) < programBrk'
<1> USE LayoutAssumption, StartTypes
<1> DEFINE newbrk == programBrk + i
<1>1. newbrk \in Nat /\ newbrk >= heapStart
  BY DEF Legal, IInv, TypeOK
<1>2. curbrk' = newbrk /\ programBrk' = newbrk /\ endOfHeap' = ROUND_UP(newbrk)
  BY DEF Moves, NewEnd
<1>3. /\ ROUND_UP(newbrk) \in Nat
      /\ newbrk <= ROUND_UP(newbrk)
      /\ \E k \in Nat : ROUND_UP(newbrk) = k * PAGE_SIZE
  BY <1>1, RoundUp
<1>4. ROUND_UP(newbrk) <= Start(TopPage)
  BY <1>1, RoundUpBelow DEF Start
<1>5. \A p \in Pages : Start(p) < ROUND_UP(newbrk) => Start(p) < newbrk
  BY <1>1, NoPageAbove DEF Start
<1>6. BreakKnown'
  <2>1. restarts' = 0
    BY DEF Moves
  <2> QED BY <1>2, <1>3, <1>4, <2>1 DEF BreakKnown, Start
<1> QED
  BY <1>1, <1>2, <1>3, <1>5, <1>6 DEF Moves, IInv, TypeOK

LEMMA WithinStep ==
  ASSUME IInv, NEW i \in Increments, SbrkWithin(i)
  PROVE  /\ IInv'
         /\ UNCHANGED mem
         /\ \A p \in Pages : Live(p, programBrk') /\ Start(p) >= programBrk =>
                               mem[p] = "zero"
<1> USE LayoutAssumption, StartTypes
<1>1. curbrk # NULL
  BY DEF SbrkWithin, Legal, Overflows, Beyond, KnownEnd, IInv, TypeOK, NULL
<1>2. /\ curbrk = programBrk /\ restarts = 0
      /\ curbrk + i <= endOfHeap /\ endOfHeap <= Start(TopPage)
      /\ Legal(i) /\ ~Overflows(i) /\ Moves(i) /\ mem' = mem
  BY <1>1 DEF SbrkWithin, Beyond, KnownEnd, IInv, BreakKnown, TypeOK
<1>3. programBrk + i <= Start(TopPage) /\ programBrk' = programBrk + i
  BY <1>2 DEF IInv, TypeOK, Moves
<1>4. /\ curbrk' = programBrk' /\ programBrk' \in Nat /\ endOfHeap' \in Nat
      /\ programBrk' >= heapStart
      /\ BreakKnown'
      /\ ret' \in Nat
      /\ \A p \in Pages : Start(p) < endOfHeap' => Start(p) < programBrk'
  BY <1>2, <1>3, MovesBreak
<1>5. \A p \in Pages : Live(p, programBrk') => mem[p] \in {"zero", "data"}
  BY <1>2, <1>3 DEF Live, IInv, EndIsMapped, TypeOK
<1>6. \A p \in Pages : Live(p, programBrk') /\ Start(p) >= programBrk =>
                         mem[p] = "zero"
  BY <1>2, <1>3 DEF Live, IInv, EndIsMapped, TypeOK
<1>7. TypeOK'
  BY <1>2, <1>4 DEF IInv, TypeOK, Moves
<1>8. GrantedIsMapped' /\ EndIsMapped'
  BY <1>2, <1>3, <1>4, <1>5 DEF GrantedIsMapped, EndIsMapped, Live
<1> QED
  BY <1>2, <1>4, <1>6, <1>7, <1>8 DEF IInv, BreakAboveStart

\* Growing maps whole pages from the end: none of them was granted before, and
\* all that are granted now are among them or below the end.
LEMMA GrowStep ==
  ASSUME IInv, NEW i \in Increments, SbrkGrows(i)
  PROVE  /\ IInv'
         /\ \A p \in Pages : Live(p, programBrk) => mem'[p] = mem[p]
         /\ \A p \in Pages : Live(p, programBrk') /\ Start(p) >= programBrk =>
                               mem'[p] = "zero"
<1> USE LayoutAssumption, StartTypes
<1> DEFINE newbrk == programBrk + i
           size == ROUND_UP(newbrk - endOfHeap)
<1>0. curbrk # NULL
  BY DEF SbrkGrows, Mappable, MappedFrom, KnownEnd
<1>1. /\ curbrk # NULL /\ curbrk = programBrk /\ restarts = 0
      /\ endOfHeap \in Nat /\ programBrk <= endOfHeap
      /\ \E k \in Nat : endOfHeap = Start(k)
  BY <1>0 DEF IInv, BreakKnown, TypeOK
<1>2. /\ newbrk \in Int /\ newbrk > endOfHeap
      /\ endOfHeap + size <= Start(TopPage)
      /\ Legal(i) /\ ~Overflows(i) /\ Moves(i)
      /\ mem' = [p \in Pages |->
                   IF Start(p) >= endOfHeap /\ Start(p) < endOfHeap + size
                   THEN "zero" ELSE mem[p]]
  BY <1>1 DEF SbrkGrows, Beyond, Mappable, Grown, MappedFrom, KnownEnd, IInv,
              TypeOK
<1>3. size \in Nat /\ newbrk <= endOfHeap + size /\ newbrk \in Nat
  <2>1. newbrk - endOfHeap \in Nat
    BY <1>1, <1>2
  <2> QED
    BY <1>1, <1>2, <2>1, RoundUp
<1>4. newbrk <= Start(TopPage)
  BY <1>1, <1>2, <1>3
<1>5. /\ curbrk' = programBrk' /\ programBrk' \in Nat /\ endOfHeap' \in Nat
      /\ programBrk' >= heapStart
      /\ BreakKnown'
      /\ ret' \in Nat
      /\ \A p \in Pages : Start(p) < endOfHeap' => Start(p) < programBrk'
  BY <1>1, <1>2, <1>4, MovesBreak
<1>6. programBrk' = newbrk
  BY <1>2 DEF Moves
<1>7. \A p \in Pages : Live(p, programBrk) => mem'[p] = mem[p]
  BY <1>1, <1>2 DEF Live, IInv, TypeOK
<1>8. \A p \in Pages : Live(p, programBrk') /\ Start(p) >= programBrk =>
                         mem'[p] = "zero"
  <2> TAKE p \in Pages
  <2> HAVE Live(p, programBrk') /\ Start(p) >= programBrk
  <2>1. CASE Start(p) >= endOfHeap
    BY <1>1, <1>2, <1>3, <1>6, <2>1 DEF Live
  <2>2. CASE Start(p) < endOfHeap
    BY <1>1, <1>2, <2>2 DEF Live, IInv, EndIsMapped
  <2> QED
    BY <1>1, <2>1, <2>2
<1>9. \A p \in Pages : Live(p, programBrk') => mem'[p] \in {"zero", "data"}
  BY <1>1, <1>7, <1>8 DEF IInv, GrantedIsMapped, Live, TypeOK
<1>10. TypeOK'
  BY <1>2, <1>5 DEF IInv, TypeOK, Moves, Contents
<1>11. GrantedIsMapped' /\ EndIsMapped'
  BY <1>4, <1>5, <1>6, <1>9 DEF GrantedIsMapped, EndIsMapped, Live
<1> QED
  BY <1>5, <1>7, <1>8, <1>10, <1>11 DEF IInv, BreakAboveStart

LEMMA TouchStep ==
  ASSUME IInv, Touch
  PROVE  IInv' /\ \A p \in Pages : mem[p] = "data" => mem'[p] = "data"
<1>1. \A p \in Pages : mem'[p] \in {mem[p], "data"}
  BY DEF Touch
<1>2. \A p \in Pages : Start(p) >= programBrk => mem'[p] = mem[p]
  BY StartTypes DEF Touch, IInv, TypeOK
<1>3. TypeOK'
  BY <1>1 DEF Touch, IInv, TypeOK, Contents
<1>4. BreakKnown' /\ BreakAboveStart'
  BY DEF Touch, IInv, BreakKnown, BreakAboveStart
<1>5. EndIsMapped'
  BY <1>1, <1>2 DEF Touch, IInv, EndIsMapped
<1>6. GrantedIsMapped'
  BY <1>1 DEF Touch, IInv, GrantedIsMapped
<1> QED
  BY <1>1, <1>3, <1>4, <1>5, <1>6 DEF IInv

LEMMA RestartStep ==
  ASSUME IInv, Restart
  PROVE  IInv' /\ programBrk' = programBrk /\ restarts' # restarts
<1>1. PICK lost \in SUBSET Pages :
        mem' = [p \in Pages |-> IF p \in lost THEN "free" ELSE mem[p]]
  BY DEF Restart
<1>2. restarts \in Nat /\ restarts' = restarts + 1 /\ UNCHANGED <<programBrk, ret>>
      /\ curbrk' = NULL /\ endOfHeap' = NULL
  BY DEF Restart, IInv, TypeOK
<1>3. TypeOK'
  BY <1>1, <1>2 DEF IInv, TypeOK, Contents, NULL
<1>4. BreakKnown' /\ BreakAboveStart' /\ GrantedIsMapped'
  BY <1>2 DEF IInv, BreakKnown, BreakAboveStart, GrantedIsMapped
<1>5. EndIsMapped'
  BY <1>2, StartTypes DEF EndIsMapped, NULL
<1> QED
  BY <1>2, <1>3, <1>4, <1>5 DEF IInv

\* One step keeps the invariant, wipes no page in use and grants only zeroes.
LEMMA Step ==
  ASSUME IInv, [Next]_vars
  PROVE  /\ IInv'
         /\ \A p \in Pages :
              /\ Live(p, programBrk) /\ Live(p, programBrk')
              /\ mem[p] = "data" /\ restarts' = restarts
              => mem'[p] = "data"
         /\ \A p \in Pages :
              Live(p, programBrk') /\ Start(p) >= programBrk => mem'[p] = "zero"
<1>0. \A p \in Pages : ~(Live(p, programBrk) /\ Start(p) >= programBrk)
  BY StartTypes DEF Live, IInv, TypeOK
<1>1. CASE Touch
  BY <1>0, <1>1, TouchStep DEF Touch
<1>2. CASE SbrkQuery
  BY <1>0, <1>2, FailsIInv
<1>3. CASE Restart
  BY <1>0, <1>3, RestartStep
<1>4. ASSUME NEW i \in Increments, SbrkOverflows(i) \/ SbrkGrowFails(i)
      PROVE  IInv' /\ UNCHANGED <<mem, programBrk>>
  BY <1>4, FailsIInv DEF SbrkOverflows, SbrkGrowFails
<1>5. ASSUME NEW i \in Increments, SbrkWithin(i)
      PROVE  /\ IInv'
             /\ UNCHANGED mem
             /\ \A p \in Pages : Live(p, programBrk') /\ Start(p) >= programBrk
                                   => mem'[p] = "zero"
  BY <1>5, WithinStep
<1>6. ASSUME NEW i \in Increments, SbrkGrows(i)
      PROVE  /\ IInv'
             /\ \A p \in Pages : Live(p, programBrk) => mem'[p] = mem[p]
             /\ \A p \in Pages : Live(p, programBrk') /\ Start(p) >= programBrk
                                   => mem'[p] = "zero"
  BY <1>6, GrowStep
<1>7. CASE \E i \in Increments : Sbrk(i)
  BY <1>0, <1>4, <1>5, <1>6, <1>7 DEF Sbrk
<1>8. CASE UNCHANGED vars
  BY <1>0, <1>8
     DEF vars, IInv, TypeOK, BreakKnown, EndIsMapped, BreakAboveStart,
         GrantedIsMapped
<1> QED
  BY <1>1, <1>2, <1>3, <1>7, <1>8 DEF Next
-----------------------------------------------------------------------------
THEOREM Invariance == Spec => []IInv
<1>1. IInv /\ [Next]_vars => IInv'
  BY Step
<1> QED
  BY InitIInv, <1>1, PTL DEF Spec

\* Every variable of the break keeps its type; no break is negative.
THEOREM TypeCorrect == Spec => []TypeOK
<1>1. IInv => TypeOK
  BY DEF IInv
<1> QED
  BY <1>1, Invariance, PTL

\* In a process that was not restarted, all that sbrk ever granted and did not
\* take back is mapped memory of the heap (sbrk-wrapper.c:69-80).  Nothing of
\* the kind holds after a restart, which may lose pages.
THEOREM Granted == Spec => []GrantedIsMapped
<1>1. IInv => GrantedIsMapped
  BY DEF IInv
<1> QED
  BY <1>1, Invariance, PTL

\* No growth of the heap wipes memory that the program still has
\* (sbrk-wrapper.c:69-79).
THEOREM NothingLost == Spec => LiveSurvives
<1>1. IInv /\ [Next]_vars =>
        [\A p \in Pages :
           /\ Live(p, programBrk) /\ Live(p, programBrk')
           /\ mem[p] = "data" /\ restarts' = restarts
           => mem'[p] = "data"]_vars
  BY Step
<1> QED
  BY <1>1, Invariance, PTL DEF Spec, LiveSurvives

\* Memory that is granted anew reads as zeroes, whatever was there before
\* (sbrk-wrapper.c:69-79).
THEOREM NewIsZero == Spec => GrantedIsZero
<1>1. IInv /\ [Next]_vars =>
        [\A p \in Pages :
           Live(p, programBrk') /\ Start(p) >= programBrk =>
             mem'[p] = "zero"]_vars
  BY Step
<1> QED
  BY <1>1, Invariance, PTL DEF Spec, GrantedIsZero

\* Once a restart has lost it the break is lost for good, and no call moves it
\* or maps memory in its stead (sbrk-wrapper.c:48-54,62-77).
THEOREM LostStaysLost == Spec => LostBreakStays
<1> DEFINE Stays == restarts > 0 =>
                      /\ UNCHANGED <<curbrk, programBrk>>
                      /\ \A p \in Pages : mem[p] = "free" => mem'[p] = "free"
<1>1. ASSUME IInv, [Next]_vars PROVE Stays
  <2> SUFFICES ASSUME restarts > 0 PROVE Stays
    OBVIOUS
  <2>1. curbrk = NULL /\ endOfHeap = NULL
    BY <1>1 DEF IInv, BreakKnown
  <2>2. CASE Touch
    BY <2>1, <2>2 DEF Touch
  <2>3. CASE Restart
    BY <2>1, <2>3 DEF Restart
  <2>4. CASE SbrkQuery
    BY <2>4 DEF SbrkQuery
  <2>5. ASSUME NEW i \in Increments, Sbrk(i) PROVE Stays
    <3>1. ~SbrkGrows(i)
      BY <2>1 DEF SbrkGrows, Mappable, MappedFrom, KnownEnd
    <3>2. ~SbrkWithin(i)
      BY <2>1, LayoutAssumption
         DEF SbrkWithin, Overflows, Beyond, KnownEnd, NULL
    <3> QED
      BY <2>5, <3>1, <3>2 DEF Sbrk, SbrkOverflows, SbrkGrowFails, Fails
  <2>6. CASE UNCHANGED vars
    BY <2>6 DEF vars
  <2> QED
    BY <1>1, <2>2, <2>3, <2>4, <2>5, <2>6 DEF Next
<1>2. IInv /\ [Next]_vars => [Stays]_vars
  BY <1>1
<1> QED
  BY <1>2, Invariance, PTL DEF Spec, LostBreakStays
=============================================================================
