--------------------------- MODULE RankInfoProofs ---------------------------
(***************************************************************************)
(* Proofs about RankInfo, for any ranks, binaries and number of processes. *)
(***************************************************************************)
EXTENDS RankInfo, TLAPS

\* The ranks of a process have its binary, live together and begin together.
MatesAgree ==
  \A q, r \in Ranks : proc[q] = proc[r] /\ proc[r] # 0 =>
    /\ build[q] = build[r]
    /\ Alive(r) => Alive(q)
    /\ \A s \in {"begun", "creating"} : stage[r] = s => stage[q] = s
    /\ stage[r] = "creating" => fd[q] = fd[r]
    /\ q # r => q \in rivals[r]

\* Processes are numbered, and those that start together are rivals.
Numbered ==
  \A r \in Ranks : proc[r] <= starts /\ (Alive(r) => proc[r] # 0)
RivalsMeet ==
  \A q, r \in Ranks :
    q # r /\ stage[q] \in Starting /\ stage[r] \in Starting => q \in rivals[r]

\* The ranks of a process are starting together with the same others.
SameRivals ==
  \A q, r \in Ranks :
    proc[q] = proc[r] /\ stage[q] \in Starting /\ stage[r] \in Starting =>
      rivals[q] \subseteq rivals[r] \cup {r}

\* What a rank finds that is not disturbed by other processes.
Found(r) ==
  /\ stage[r] = "creating" => name = fd[r]
  /\ stage[r] = "fresh" =>
       \/ name # 0 /\ content[name] = build[r]
       \/ name = 0 /\ \E q \in Mates(r) : stage[q] = "ready"
  /\ stage[r] = "opened" => content[fd[r]] = build[r]
  /\ stage[r] \in {"read", "ready"} => info[r] = build[r]
AllFound == \A r \in Ranks : Undisturbed(r) => Found(r)

Inv == TypeOK /\ MatesAgree /\ Numbered /\ RivalsMeet /\ SameRivals
FullInv == Inv /\ AllFound /\ LoneRankLives
-----------------------------------------------------------------------------
(* Type correctness.                                                       *)

LEMMA InitType == Init => TypeOK
BY RankInfoAssumption DEF Init, TypeOK, Stages, Starting, Numbers

LEMMA StartType ==
  ASSUME TypeOK, Numbered, NEW rs \in SUBSET Ranks, NEW b \in Builds, Start(rs, b),
         info' \in [Ranks -> Builds \cup {Empty}],
         \A r \in Ranks \ rs : info'[r] = info[r]
  PROVE  TypeOK'
<1>1. starts \in Nat /\ MaxStarts \in Nat /\ starts < MaxStarts
  BY RankInfoAssumption DEF Start, TypeOK
<1>2. starts + 1 \in Numbers /\ starts' \in 0 .. MaxStarts
  BY <1>1 DEF Start, Numbers
<1>3. rivals' \in [Ranks -> SUBSET Ranks]
  BY DEF Start, Rivals, TypeOK
<1>4. /\ stage' \in [Ranks -> Stages] /\ build' \in [Ranks -> Builds]
      /\ proc' \in [Ranks -> {0} \cup Numbers] /\ fd' \in [Ranks -> {0} \cup Numbers]
  BY <1>2 DEF Start, Become, TypeOK, Stages, Starting
<1>5. \A r \in Ranks : r \notin rs => stage'[r] = stage[r] /\ fd'[r] = fd[r]
  BY DEF Start, Become
<1>6. \A r \in rs : stage'[r] = "begun"
  BY DEF Start, Become
<1> QED
  BY <1>2, <1>3, <1>4, <1>5, <1>6 DEF Start, file, TypeOK

LEMMA OpenToWriteType ==
  ASSUME TypeOK, NEW rs \in SUBSET Ranks, OpenToWrite(rs)
  PROVE  TypeOK'
<1>1. PICK i \in Numbers : /\ name' = i /\ fd' = Become(fd, rs, i)
                          /\ stage' = Become(stage, rs, "creating")
  BY DEF OpenToWrite, Creates
<1>2. i # 0
  BY RankInfoAssumption DEF Numbers
<1> QED
  BY <1>1, <1>2 DEF OpenToWrite, Become, process, TypeOK, Stages, Starting

LEMMA WriteType ==
  ASSUME TypeOK, NEW rs \in SUBSET Ranks, Write(rs)
  PROVE  TypeOK'
BY DEF Write, Written, Become, process, TypeOK, Stages, Starting

LEMMA HasFile ==
  ASSUME TypeOK, NEW r \in Ranks, stage[r] \in {"creating", "opened", "read"}
  PROVE  fd[r] \in Numbers
BY DEF TypeOK

\* What a rank and its file become, the rest of the state being typed.
LEMMA StepType ==
  ASSUME TypeOK, NEW r \in Ranks, NEW s \in Stages, NEW i \in {0} \cup Numbers,
         stage' = Become(stage, {r}, s), fd' = Become(fd, {r}, i),
         s \in {"creating", "opened", "read"} => i # 0,
         s \in {"read", "ready"} => info'[r] # Empty,
         info' \in [Ranks -> Builds \cup {Empty}],
         \A q \in Ranks \ {r} : info'[q] = info[q],
         name' \in {0} \cup Numbers,
         UNCHANGED <<process, images, content, starts, rivals>>
  PROVE  TypeOK'
BY DEF TypeOK, process, Become

LEMMA Unchanging ==
  ASSUME TypeOK, NEW r \in Ranks
  PROVE  fd = Become(fd, {r}, fd[r])
BY DEF TypeOK, Become

LEMMA RankType ==
  ASSUME TypeOK, NEW r \in Ranks,
         OpenToRead(r) \/ NoFile(r) \/ Read(r) \/ TooShort(r) \/ Unlink(r)
           \/ Checkpoint(r) \/ Die(r)
  PROVE  TypeOK'
<1>1. CASE OpenToRead(r)
  <2>1. name \in {0} \cup Numbers /\ "opened" \in Stages /\ name # 0
        /\ info \in [Ranks -> Builds \cup {Empty}]
    BY <1>1 DEF TypeOK, Stages, Starting, OpenToRead
  <2> QED
    BY <1>1, <2>1, StepType DEF OpenToRead, Goes, file
<1>2. CASE NoFile(r) \/ TooShort(r)
  BY <1>2 DEF NoFile, TooShort, Exit, TypeOK, process, file, Stages, Become
<1>3. CASE Read(r)
  <2>1. stage[r] = "opened" /\ content[fd[r]] # Empty
    BY <1>3 DEF Read, Enough, Goes
  <2>2. fd[r] \in Numbers
    BY <2>1, HasFile
  <2>3. content[fd[r]] \in Builds
    BY <2>1, <2>2 DEF TypeOK
  <2>4. info' \in [Ranks -> Builds \cup {Empty}] /\ info'[r] # Empty
        /\ \A q \in Ranks \ {r} : info'[q] = info[q]
    BY <1>3, <2>3, RankInfoAssumption DEF Read, Become, TypeOK
  <2>5. fd[r] # 0 /\ name \in {0} \cup Numbers /\ "read" \in Stages
    BY <2>1 DEF TypeOK, Stages, Starting
  <2> QED
    BY <1>3, <2>2, <2>4, <2>5, Unchanging, StepType DEF Read, Goes, file
<1>4. CASE Unlink(r)
  <2>1. "ready" \in Stages /\ info[r] # Empty
        /\ info \in [Ranks -> Builds \cup {Empty}]
    BY <1>4 DEF Unlink, Goes, Stages, TypeOK
  <2> QED
    BY <1>4, <2>1, StepType DEF Unlink, Goes
<1>5. CASE Checkpoint(r)
  BY <1>5 DEF Checkpoint, TypeOK, process, file
<1>6. CASE Die(r)
  BY <1>6 DEF Die, TypeOK, process, file, Stages
<1> QED
  BY <1>1, <1>2, <1>3, <1>4, <1>5, <1>6
\* A start concerns ranks that are not alive, and gives them a new number.
LEMMA StartIs ==
  ASSUME Inv, NEW rs \in SUBSET Ranks, NEW b \in Builds, Start(rs, b)
  PROVE  /\ starts \in Nat /\ starts' = starts + 1
         /\ \A r \in rs : /\ ~Alive(r) /\ stage'[r] = "begun" /\ proc'[r] = starts + 1
                          /\ build'[r] = b /\ rs \ {r} \subseteq rivals'[r]
         /\ \A r \in Ranks \ rs :
              /\ stage'[r] = stage[r] /\ proc'[r] = proc[r] /\ build'[r] = build[r]
              /\ fd'[r] = fd[r] /\ proc[r] \in Nat /\ proc[r] <= starts
              /\ rivals[r] \subseteq rivals'[r]
              /\ stage[r] \in Starting =>
                   rs \subseteq rivals'[r] /\ \A q \in rs : r \in rivals'[q]
<1>1. starts \in Nat
  BY RankInfoAssumption DEF Inv, TypeOK
<1>2. ASSUME NEW r \in rs
      PROVE  /\ ~Alive(r) /\ stage'[r] = "begun" /\ proc'[r] = starts + 1
             /\ build'[r] = b /\ rs \ {r} \subseteq rivals'[r]
  BY DEF Start, Become, Rivals
<1>3. ASSUME NEW r \in Ranks \ rs
      PROVE  /\ stage'[r] = stage[r] /\ proc'[r] = proc[r] /\ build'[r] = build[r]
             /\ fd'[r] = fd[r] /\ rivals[r] \subseteq rivals'[r]
             /\ stage[r] \in Starting =>
                  rs \subseteq rivals'[r] /\ \A q \in rs : r \in rivals'[q]
  BY DEF Start, Become, Rivals
<1>4. \A r \in Ranks : proc[r] \in Nat /\ proc[r] <= starts
  BY RankInfoAssumption DEF Inv, TypeOK, Numbered, Numbers
<1> QED
  BY <1>1, <1>2, <1>3, <1>4 DEF Start

LEMMA StartAgrees ==
  ASSUME Inv, NEW rs \in SUBSET Ranks, NEW b \in Builds, Start(rs, b)
  PROVE  MatesAgree' /\ Numbered' /\ RivalsMeet' /\ SameRivals'
<1>0. /\ starts \in Nat /\ starts' = starts + 1
      /\ \A r \in rs : /\ ~Alive(r) /\ stage'[r] = "begun" /\ proc'[r] = starts + 1
                       /\ build'[r] = b /\ rs \ {r} \subseteq rivals'[r]
      /\ \A r \in Ranks \ rs :
           /\ stage'[r] = stage[r] /\ proc'[r] = proc[r] /\ build'[r] = build[r]
           /\ fd'[r] = fd[r] /\ proc[r] \in Nat /\ proc[r] <= starts
           /\ rivals[r] \subseteq rivals'[r]
           /\ stage[r] \in Starting =>
                rs \subseteq rivals'[r] /\ \A q \in rs : r \in rivals'[q]
  BY StartIs
<1>1. Numbered'
  BY <1>0 DEF Inv, Numbered, Alive
<1>2. RivalsMeet'
  <2> SUFFICES ASSUME NEW q \in Ranks, NEW r \in Ranks, q # r,
                      stage'[q] \in Starting, stage'[r] \in Starting
               PROVE  q \in rivals'[r]
    BY DEF RivalsMeet
  <2>1. CASE q \in rs /\ r \in rs
    BY <1>0, <2>1
  <2>2. CASE q \notin rs /\ r \in rs
    BY <1>0, <2>2
  <2>3. CASE q \in rs /\ r \notin rs
    BY <1>0, <2>3
  <2>4. CASE q \notin rs /\ r \notin rs
    <3>1. q \in rivals[r]
      BY <1>0, <2>4 DEF Inv, RivalsMeet
    <3> QED
      BY <1>0, <2>4, <3>1
  <2> QED
    BY <2>1, <2>2, <2>3, <2>4
<1>3. MatesAgree'
  <2> SUFFICES ASSUME NEW q \in Ranks, NEW r \in Ranks,
                      proc'[q] = proc'[r], proc'[r] # 0
               PROVE  /\ build'[q] = build'[r]
                      /\ Alive(r)' => Alive(q)'
                      /\ \A s \in {"begun", "creating"} : stage'[r] = s => stage'[q] = s
                      /\ stage'[r] = "creating" => fd'[q] = fd'[r]
                      /\ q # r => q \in rivals'[r]
    BY DEF MatesAgree
  <2>1. CASE q \in rs /\ r \in rs
    BY <1>0, <2>1 DEF Alive, Starting
  <2>2. CASE q \notin rs /\ r \in rs
    BY <1>0, <2>2
  <2>3. CASE q \in rs /\ r \notin rs
    BY <1>0, <2>3
  <2>4. CASE q \notin rs /\ r \notin rs
    BY <1>0, <2>4 DEF Inv, MatesAgree, Alive
  <2> QED
    BY <2>1, <2>2, <2>3, <2>4
<1>4. SameRivals'
  <2> SUFFICES ASSUME NEW q \in Ranks, NEW r \in Ranks, proc'[q] = proc'[r],
                      stage'[q] \in Starting, stage'[r] \in Starting
               PROVE  rivals'[q] \subseteq rivals'[r] \cup {r}
    BY DEF SameRivals
  <2>1. CASE q \in rs /\ r \in rs
    BY <2>1 DEF Start, Rivals
  <2>2. CASE q \notin rs /\ r \notin rs
    <3>1. rivals[q] \subseteq rivals[r] \cup {r}
      BY <1>0, <2>2 DEF Inv, SameRivals
    <3>2. rivals'[q] = rivals[q] \cup rs /\ rivals'[r] = rivals[r] \cup rs
      BY <1>0, <2>2 DEF Start, Rivals
    <3> QED
      BY <3>1, <3>2
  <2> QED
    BY <1>0, <2>1, <2>2
<1> QED
  BY <1>1, <1>2, <1>3, <1>4

\* A process as a whole goes on.
LEMMA ProcessAgrees ==
  ASSUME Inv, NEW rs \in SUBSET Ranks, OpenToWrite(rs) \/ Write(rs)
  PROVE  MatesAgree' /\ Numbered' /\ RivalsMeet' /\ SameRivals'
<1>1. /\ \A r \in rs : stage[r] \in Starting /\ Mates(r) = rs
      /\ \A r \in Ranks \ rs : stage'[r] = stage[r] /\ fd'[r] = fd[r]
      /\ UNCHANGED <<proc, build, starts, rivals>>
  BY DEF OpenToWrite, Write, Creates, process, Become, Starting
<1>2. \E s \in Starting : \E i : \A r \in rs : stage'[r] = s /\ fd'[r] = i
  <2>1. CASE OpenToWrite(rs)
    BY <2>1 DEF OpenToWrite, Creates, Become, Starting
  <2>2. CASE Write(rs)
    BY <2>2 DEF Write, Become, Starting
  <2> QED
    BY <2>1, <2>2
<1>3. \A q, r \in Ranks : proc[q] = proc[r] => (q \in rs <=> r \in rs)
  BY <1>1 DEF Mates
<1>4. \A r \in Ranks : Alive(r)' <=> Alive(r)
  BY <1>1, <1>2 DEF Alive
<1>5. Numbered'
  BY <1>1, <1>4 DEF Inv, Numbered
<1>6. RivalsMeet'
  BY <1>1 DEF Inv, RivalsMeet
<1>7. MatesAgree'
  BY <1>1, <1>2, <1>3, <1>4 DEF Inv, MatesAgree
<1>8. SameRivals'
  BY <1>1 DEF Inv, SameRivals
<1> QED
  BY <1>5, <1>6, <1>7, <1>8

\* A rank goes on by itself.
LEMMA RankAgrees ==
  ASSUME Inv, NEW r \in Ranks, NEW s,
         stage[r] \in {"fresh", "opened", "read"}, s \in {"opened", "read", "ready"},
         stage' = Become(stage, {r}, s), \A q \in Ranks \ {r} : fd'[q] = fd[q],
         UNCHANGED <<process, starts, rivals>>
  PROVE  MatesAgree' /\ Numbered' /\ RivalsMeet' /\ SameRivals'
<1>1. /\ stage'[r] = s /\ \A q \in Ranks \ {r} : stage'[q] = stage[q]
      /\ \A q \in Ranks : Alive(q)' <=> Alive(q)
      /\ UNCHANGED <<proc, build>>
  BY DEF Become, Alive, Starting, process
<1>2. Numbered'
  BY <1>1 DEF Inv, Numbered
<1>3. RivalsMeet'
  BY <1>1 DEF Inv, RivalsMeet, Starting
<1>4. ASSUME NEW q \in Ranks, stage[q] \in {"begun", "creating"}
      PROVE  proc[q] # proc[r]
  BY <1>4 DEF Inv, MatesAgree, Numbered, Alive, Starting
<1>5. MatesAgree'
  BY <1>1, <1>4 DEF Inv, MatesAgree
<1>6. SameRivals'
  BY <1>1 DEF Inv, SameRivals, Starting
<1> QED
  BY <1>2, <1>3, <1>5, <1>6

\* A process ends.
LEMMA EndAgrees ==
  ASSUME Inv, NEW r \in Ranks, Alive(r),
         \A q \in Mates(r) : stage'[q] \in {"dead", "exited"},
         \A q \in Ranks \ Mates(r) : stage'[q] = stage[q],
         UNCHANGED <<process, fd, starts, rivals>>
  PROVE  MatesAgree' /\ Numbered' /\ RivalsMeet' /\ SameRivals'
<1>1. /\ \A q \in Ranks : Alive(q)' => Alive(q)
      /\ \A q \in Ranks : stage'[q] \in Starting => stage[q] \in Starting
      /\ UNCHANGED <<proc, build>>
  BY DEF Alive, Starting, process
<1>2. \A p, q \in Ranks : proc[p] = proc[q] => (p \in Mates(r) <=> q \in Mates(r))
  BY DEF Mates
<1>3. Numbered'
  BY <1>1 DEF Inv, Numbered
<1>4. RivalsMeet'
  BY <1>1 DEF Inv, RivalsMeet
<1>5. MatesAgree'
  <2> SUFFICES ASSUME NEW p \in Ranks, NEW q \in Ranks, proc[p] = proc[q], proc[q] # 0
               PROVE  /\ build'[p] = build'[q]
                      /\ Alive(q)' => Alive(p)'
                      /\ \A s \in {"begun", "creating"} : stage'[q] = s => stage'[p] = s
                      /\ stage'[q] = "creating" => fd'[p] = fd'[q]
                      /\ p # q => p \in rivals'[q]
    BY <1>1 DEF MatesAgree
  <2>1. CASE p \in Mates(r)
    BY <1>1, <1>2, <2>1 DEF Inv, MatesAgree, Alive, Starting
  <2>2. CASE p \notin Mates(r)
    BY <1>1, <1>2, <2>2 DEF Inv, MatesAgree, Alive
  <2> QED
    BY <2>1, <2>2
<1>6. SameRivals'
  BY <1>1 DEF Inv, SameRivals
<1> QED
  BY <1>3, <1>4, <1>5, <1>6

LEMMA RankStepAgrees ==
  ASSUME Inv, NEW r \in Ranks,
         OpenToRead(r) \/ NoFile(r) \/ Read(r) \/ TooShort(r) \/ Unlink(r)
           \/ Checkpoint(r) \/ Die(r)
  PROVE  MatesAgree' /\ Numbered' /\ RivalsMeet' /\ SameRivals'
<1>1. CASE OpenToRead(r)
  <2>1. \A q \in Ranks \ {r} : fd'[q] = fd[q]
    BY <1>1 DEF OpenToRead, Become
  <2> QED
    BY <1>1, <2>1, RankAgrees DEF OpenToRead, Goes
<1>2. CASE NoFile(r) \/ TooShort(r)
  <2>1. /\ Alive(r) /\ UNCHANGED <<process, fd, starts, rivals>>
        /\ \A q \in Mates(r) : stage'[q] \in {"dead", "exited"}
        /\ \A q \in Ranks \ Mates(r) : stage'[q] = stage[q]
    BY <1>2 DEF NoFile, TooShort, Exit, Alive, Starting, Become, Mates
  <2> QED
    BY <2>1, EndAgrees
<1>3. CASE Read(r)
  <2>1. \A q \in Ranks \ {r} : fd'[q] = fd[q]
    BY <1>3 DEF Read
  <2> QED
    BY <1>3, <2>1, RankAgrees DEF Read, Goes
<1>4. CASE Unlink(r)
  <2>1. \A q \in Ranks \ {r} : fd'[q] = fd[q]
    BY <1>4 DEF Unlink, Become
  <2> QED
    BY <1>4, <2>1, RankAgrees DEF Unlink, Goes
<1>5. CASE Checkpoint(r)
  BY <1>5 DEF Checkpoint, process, Inv, MatesAgree, Numbered, RivalsMeet, SameRivals, Alive
<1>6. CASE Die(r)
  <2>1. Alive(r) /\ UNCHANGED <<process, fd, starts, rivals>>
        /\ \A q \in Ranks \ Mates(r) : stage'[q] = stage[q]
    BY <1>6 DEF Die
  <2>2. ASSUME NEW q \in Mates(r) PROVE stage'[q] = "dead"
    <3>1. q \in Ranks /\ proc[q] = proc[r] /\ proc[r] # 0
      BY <2>1 DEF Mates, Inv, Numbered
    <3>2. Alive(q)
      BY <2>1, <3>1 DEF Inv, MatesAgree
    <3> QED
      BY <1>6, <3>1, <3>2 DEF Die
  <2> QED
    BY <2>1, <2>2, EndAgrees
<1> QED
  BY <1>1, <1>2, <1>3, <1>4, <1>5, <1>6

LEMMA InitInv == Init => Inv
<1>1. Init => MatesAgree /\ Numbered /\ RivalsMeet /\ SameRivals
  BY DEF Init, MatesAgree, Numbered, RivalsMeet, SameRivals, Alive, Starting
<1> QED
  BY <1>1, InitType DEF Inv

LEMMA InvStep == Inv /\ [Next]_vars => Inv'
<1> SUFFICES ASSUME Inv, [Next]_vars PROVE Inv'
  OBVIOUS
<1>0. TypeOK /\ Numbered
  BY DEF Inv
<1>1. ASSUME NEW r \in Ranks, NEW b \in Builds, Launch(r, b)
      PROVE  Inv'
  <2>1. Start({r}, b) /\ {r} \in SUBSET Ranks
    BY <1>1 DEF Launch
  <2>2. info' \in [Ranks -> Builds \cup {Empty}] /\ \A q \in Ranks \ {r} : info'[q] = info[q]
    BY <1>0, <1>1 DEF Launch, Become, TypeOK
  <2> QED
    BY <1>0, <2>1, <2>2, StartType, StartAgrees DEF Inv
<1>2. ASSUME NEW rs \in SUBSET Ranks, NEW b \in Builds, Restart(rs, b)
      PROVE  Inv'
  <2>1. info' \in [Ranks -> Builds \cup {Empty}] /\ UNCHANGED info
    BY <1>0, <1>2 DEF Restart, TypeOK
  <2> QED
    BY <1>0, <1>2, <2>1, StartType, StartAgrees DEF Inv, Restart
<1>3. ASSUME NEW rs \in SUBSET Ranks, OpenToWrite(rs) \/ Write(rs)
      PROVE  Inv'
  BY <1>0, <1>3, OpenToWriteType, WriteType, ProcessAgrees DEF Inv
<1>4. ASSUME NEW r \in Ranks,
             OpenToRead(r) \/ NoFile(r) \/ Read(r) \/ TooShort(r) \/ Unlink(r)
               \/ Checkpoint(r) \/ Die(r)
      PROVE  Inv'
  BY <1>0, <1>4, RankType, RankStepAgrees DEF Inv
<1>5. CASE UNCHANGED vars
  BY <1>0, <1>5 DEF vars, process, file, Inv, TypeOK, MatesAgree, Numbered, RivalsMeet, SameRivals, Alive
<1> QED
  BY <1>1, <1>2, <1>3, <1>4, <1>5 DEF Next

\* The ranks of a directory and the files of the name addr.bin are well typed,
\* and no rank goes on with addresses it has not read.
THEOREM TypeCorrect == Spec => []TypeOK
<1>1. Inv => TypeOK
  BY DEF Inv
<1> QED
  BY <1>1, InitInv, InvStep, PTL DEF Spec-----------------------------------------------------------------------------
(* What a rank finds.                                                      *)

\* A rank that is disturbed stays so, until it starts again.
LEMMA StaysDisturbed ==
  ASSUME NEW r \in Ranks, Undisturbed(r)', rivals[r] \subseteq rivals'[r],
         \A q \in Ranks : proc'[q] = proc'[r] => proc[q] = proc[r]
  PROVE  Undisturbed(r)
BY DEF Undisturbed, Mates

\* A start is found out about by ranks that are starting.
LEMMA StartFound ==
  ASSUME Inv, AllFound, LoneRankLives, NEW rs \in SUBSET Ranks, rs # {},
         NEW b \in Builds, Start(rs, b),
         \A r \in Ranks \ rs : info'[r] = info[r]
  PROVE  AllFound' /\ LoneRankLives'
<1>1. /\ starts' = starts + 1 /\ starts \in Nat /\ name' = name /\ content' = content
      /\ \A r \in rs : stage'[r] = "begun" /\ proc'[r] = starts + 1
      /\ \A r \in Ranks \ rs :
           /\ stage'[r] = stage[r] /\ proc'[r] = proc[r] /\ build'[r] = build[r]
           /\ proc[r] \in Nat /\ proc[r] <= starts
           /\ rivals[r] \subseteq rivals'[r]
           /\ stage[r] \in Starting => rs \subseteq rivals'[r]
  BY StartIs DEF Start, file
<1>2. ASSUME NEW r \in Ranks, Undisturbed(r)'
      PROVE  Found(r)'
  <2>1. CASE r \in rs
    BY <1>1, <2>1 DEF Found
  <2>2. CASE r \notin rs
    <3>1. \A q \in Ranks : proc'[q] = proc'[r] => q \notin rs /\ proc[q] = proc[r]
      BY <1>1, <2>2
    <3>2. stage[r] \notin Starting
      <4>1. rs \cap Mates(r)' = {}
        BY <3>1 DEF Mates
      <4> QED
        BY <1>1, <1>2, <2>2, <4>1 DEF Undisturbed
    <3>3. Undisturbed(r)
      BY <1>1, <1>2, <2>2, <3>1, StaysDisturbed
    <3>4. Found(r)
      BY <3>3 DEF AllFound
    <3> QED
      BY <1>1, <2>2, <3>2, <3>4 DEF Found, Starting
  <2> QED
    BY <2>1, <2>2
<1>3. LoneRankLives'
  <2> SUFFICES ASSUME NEW r \in Ranks, rivals'[r] = {} PROVE stage'[r] # "exited"
    BY DEF LoneRankLives
  <2>1. CASE r \in rs
    BY <1>1, <2>1
  <2>2. CASE r \notin rs
    BY <1>1, <2>2 DEF LoneRankLives
  <2> QED
    BY <2>1, <2>2
<1> QED
  BY <1>2, <1>3 DEF AllFound

\* The ranks that are starting while an undisturbed one is are its mates.
LEMMA OnlyMates ==
  ASSUME Inv, NEW q \in Ranks, NEW r \in Ranks, Undisturbed(r),
         stage[q] \in Starting, stage[r] \in Starting
  PROVE  proc[q] = proc[r] /\ proc[r] # 0
<1>1. proc[r] # 0
  BY DEF Inv, Numbered, Alive
<1>2. q # r => q \in Mates(r)
  BY DEF Inv, RivalsMeet, Undisturbed
<1> QED
  BY <1>1, <1>2 DEF Mates

LEMMA ProcessFound ==
  ASSUME Inv, AllFound, LoneRankLives, NEW rs \in SUBSET Ranks, rs # {},
         OpenToWrite(rs) \/ Write(rs)
  PROVE  AllFound' /\ LoneRankLives'
<1>1. /\ \A r \in rs : stage[r] \in {"begun", "creating"} /\ Mates(r) = rs
      /\ \A r \in Ranks \ rs : stage'[r] = stage[r] /\ fd'[r] = fd[r]
      /\ \A r \in rs : stage'[r] \in {"creating", "fresh"}
      /\ UNCHANGED <<proc, build, info, starts, rivals>>
  BY DEF OpenToWrite, Write, Creates, process, Become
<1>2. LoneRankLives'
  <2> SUFFICES ASSUME NEW r \in Ranks, rivals'[r] = {} PROVE stage'[r] # "exited"
    BY DEF LoneRankLives
  <2> QED
    BY <1>1 DEF LoneRankLives
<1>3. ASSUME NEW r \in Ranks, Undisturbed(r)', r \in rs
      PROVE  Found(r)'
  <2>1. Undisturbed(r)
    BY <1>1, <1>3 DEF Undisturbed, Mates
  <2>2. CASE OpenToWrite(rs)
    <3>1. stage'[r] = "creating" /\ name' = fd'[r]
      BY <1>3, <2>2 DEF OpenToWrite, Creates, Become
    <3> QED
      BY <3>1 DEF Found
  <2>3. CASE Write(rs)
    <3>1. PICK q \in rs : content' = [content EXCEPT ![fd[q]] = build[q]]
      BY <2>3 DEF Write, Written
    <3>2. stage[r] = "creating" /\ stage[q] = "creating" /\ stage'[r] = "fresh" /\ name' = name
      BY <1>3, <2>3 DEF Write, Become
    <3>3. proc[q] = proc[r] /\ proc[r] # 0
      BY <1>1, <1>3, <3>2 DEF Mates, Inv, Numbered, Alive, Starting
    <3>4. fd[q] = fd[r] /\ build[q] = build[r] /\ name = fd[r]
      BY <2>1, <3>2, <3>3 DEF Inv, MatesAgree, AllFound, Found
    <3>5. fd[r] \in Numbers /\ fd[r] # 0
      BY <3>2, HasFile DEF Inv, TypeOK
    <3>6. content'[name'] = build'[r] /\ name' # 0
      BY <1>1, <3>1, <3>2, <3>4, <3>5 DEF Inv, TypeOK
    <3> QED
      BY <3>2, <3>6 DEF Found
  <2> QED
    BY <2>2, <2>3
<1>4. ASSUME NEW r \in Ranks, Undisturbed(r)', r \notin rs
      PROVE  Found(r)'
  <2>1. Undisturbed(r)
    BY <1>1, <1>4 DEF Undisturbed, Mates
  <2>2. stage[r] \notin Starting
    <3>1. PICK q \in rs : TRUE
      OBVIOUS
    <3>2. stage[q] \in Starting /\ r \notin Mates(q)
      BY <1>1, <1>4 DEF Starting
    <3> QED
      BY <2>1, <3>2, OnlyMates DEF Mates
  <2> QED
    BY <1>1, <1>4, <2>1, <2>2 DEF AllFound, Found, Starting
<1> QED
  BY <1>2, <1>3, <1>4 DEF AllFound
\* What every rank but one finds stays: the one may take addr.bin away when it
\* has got its own.
LEMMA OthersFound ==
  ASSUME Inv, AllFound, NEW r \in Ranks, NEW q \in Ranks, q # r, Undisturbed(r),
         stage'[r] = stage[r], fd'[r] = fd[r], info'[r] = info[r],
         UNCHANGED <<process, content>>,
         \A p \in Ranks : stage[p] = "ready" => stage'[p] = "ready",
         name' = name \/ (name' = 0 /\ stage[q] = "read" /\ stage'[q] = "ready")
  PROVE  Found(r)'
<1>1. Found(r) /\ proc' = proc /\ build' = build
  BY DEF AllFound, process
<1>2. CASE name' = name
  BY <1>1, <1>2 DEF Found, Mates
<1>3. CASE name' = 0 /\ stage[q] = "read" /\ stage'[q] = "ready"
  <2>1. CASE stage[r] \in Starting
    <3>1. proc[q] = proc[r] /\ proc[r] # 0
      BY <1>3, <2>1, OnlyMates DEF Starting
    <3>2. stage[r] # "creating"
      BY <1>3, <3>1 DEF Inv, MatesAgree
    <3>3. q \in Mates(r)'
      BY <1>1, <3>1 DEF Mates
    <3> QED
      BY <1>1, <1>3, <3>2, <3>3 DEF Found
  <2>2. CASE stage[r] \notin Starting
    BY <1>1, <2>2 DEF Found, Starting
  <2> QED
    BY <2>1, <2>2
<1> QED
  BY <1>2, <1>3

\* The ranks of a process are sent away, and it is not for other processes: one
\* of them has got addr.bin, which is gone.
LEMMA ExitOnlyAfter ==
  ASSUME Inv, AllFound, NEW q \in Ranks, NoFile(q) \/ TooShort(q),
         NEW r \in Mates(q), Undisturbed(r)
  PROVE  \E p \in Mates(r) : stage[p] = "ready" /\ p # q
<1>1. /\ stage[q] \in Starting /\ stage[q] # "ready"
      /\ r \in Ranks /\ proc[r] = proc[q] /\ proc[q] # 0 /\ Mates(q) = Mates(r)
  BY DEF NoFile, TooShort, Alive, Starting, Mates, Inv, Numbered
<1>2. CASE stage[r] = "ready"
  BY <1>1, <1>2 DEF Mates
<1>3. CASE stage[r] \in Starting
  <2>1. rivals[q] \subseteq rivals[r] \cup {r}
    BY <1>1, <1>3 DEF Inv, SameRivals
  <2>2. Undisturbed(q)
    BY <1>1, <2>1 DEF Undisturbed
  <2>3. Found(q)
    BY <2>2 DEF AllFound
  <2>4. ~TooShort(q)
    <3>1. build[q] # Empty
      BY RankInfoAssumption DEF Inv, TypeOK
    <3> QED
      BY <2>3, <3>1 DEF TooShort, Enough, Found
  <2>5. stage[q] = "fresh" /\ name = 0
    BY <2>4 DEF NoFile
  <2> QED
    BY <1>1, <2>3, <2>5 DEF Found
<1>4. Alive(r)
  BY <1>1 DEF Inv, MatesAgree, Alive
<1> QED
  BY <1>2, <1>3, <1>4 DEF Alive

LEMMA RankFound ==
  ASSUME Inv, AllFound, LoneRankLives, NEW q \in Ranks,
         OpenToRead(q) \/ Read(q) \/ Unlink(q) \/ Checkpoint(q)
  PROVE  AllFound' /\ LoneRankLives'
<1>1. /\ UNCHANGED <<process, content, starts, rivals>>
      /\ name' = name \/ (name' = 0 /\ stage[q] = "read" /\ stage'[q] = "ready")
      /\ stage[q] # "ready" \/ stage'[q] = "ready"
      /\ stage'[q] # "exited" \/ stage[q] = "exited"
      /\ \A r \in Ranks \ {q} : stage'[r] = stage[r] /\ fd'[r] = fd[r] /\ info'[r] = info[r]
  BY DEF OpenToRead, Read, Unlink, Checkpoint, Goes, file, Become
<1>2. \A r \in Ranks : Undisturbed(r)' => Undisturbed(r)
  BY <1>1 DEF Undisturbed, Mates, process
<1>3. LoneRankLives'
  <2> SUFFICES ASSUME NEW r \in Ranks, rivals'[r] = {} PROVE stage'[r] # "exited"
    BY DEF LoneRankLives
  <2> QED
    BY <1>1 DEF LoneRankLives
<1>4. ASSUME NEW r \in Ranks, r # q, Undisturbed(r)'
      PROVE  Found(r)'
  <2>1. \A p \in Ranks : stage[p] = "ready" => stage'[p] = "ready"
    BY <1>1
  <2> QED
    BY <1>1, <1>2, <1>4, <2>1, OthersFound
<1>5. ASSUME Undisturbed(q)'
      PROVE  Found(q)'
  <2>1. Found(q) /\ proc' = proc /\ build' = build
    BY <1>1, <1>2, <1>5 DEF AllFound, process
  <2>2. CASE OpenToRead(q)
    BY <1>1, <2>1, <2>2 DEF OpenToRead, Goes, Become, file, Found
  <2>3. CASE Read(q)
    <3>1. stage'[q] = "read" /\ stage[q] = "opened" /\ info'[q] = content[fd[q]]
      BY <2>3 DEF Read, Goes, Become
    <3> QED
      BY <2>1, <3>1 DEF Found
  <2>4. CASE Unlink(q)
    BY <2>1, <2>4 DEF Unlink, Goes, Become, Found
  <2>5. CASE Checkpoint(q)
    BY <2>1, <2>5 DEF Checkpoint, file, Found
  <2> QED
    BY <2>2, <2>3, <2>4, <2>5
<1> QED
  BY <1>3, <1>4, <1>5 DEF AllFound

LEMMA EndFound ==
  ASSUME Inv, AllFound, LoneRankLives, NEW q \in Ranks,
         NoFile(q) \/ TooShort(q) \/ Die(q)
  PROVE  AllFound' /\ LoneRankLives'
<1>1. /\ UNCHANGED <<process, fd, info, file, rivals>>
      /\ \A r \in Ranks : stage'[r] # stage[r] =>
           r \in Mates(q) /\ stage'[r] \in {"dead", "exited"}
  BY DEF NoFile, TooShort, Exit, Die, Become
<1>2. ASSUME NEW r \in Ranks, Undisturbed(r)'
      PROVE  Found(r)'
  <2>1. Found(r) /\ proc' = proc /\ build' = build
    BY <1>1, <1>2 DEF AllFound, Undisturbed, Mates, process
  <2>2. CASE stage'[r] # stage[r]
    BY <1>1, <2>2 DEF Found
  <2>3. CASE stage'[r] = stage[r] /\ stage[r] = "fresh" /\ r \in Mates(q)
    BY <2>3 DEF NoFile, TooShort, Exit, Die, Become, Mates, Alive, Starting
  <2>4. CASE stage'[r] = stage[r] /\ ~(stage[r] = "fresh" /\ r \in Mates(q))
    <3>1. r \notin Mates(q) => \A p \in Mates(r) : stage'[p] = stage[p]
      BY <1>1 DEF Mates
    <3> QED
      BY <1>1, <2>1, <2>4, <3>1 DEF Found, file, Mates
  <2> QED
    BY <2>2, <2>3, <2>4
<1>3. ASSUME NEW r \in Ranks, rivals'[r] = {}
      PROVE  stage'[r] # "exited"
  <2>1. CASE stage'[r] = stage[r]
    BY <1>1, <1>3, <2>1 DEF LoneRankLives
  <2>2. CASE stage'[r] # stage[r] /\ Die(q)
    BY <2>2 DEF Die
  <2>3. CASE stage'[r] # stage[r] /\ (NoFile(q) \/ TooShort(q))
    <3>1. r \in Mates(q) /\ Undisturbed(r)
      BY <1>1, <1>3, <2>3 DEF Undisturbed
    <3>2. PICK p \in Mates(r) : stage[p] = "ready" /\ p # q
      BY <2>3, <3>1, ExitOnlyAfter
    <3>3. q \in Mates(r) /\ proc[r] # 0
      BY <2>3, <3>1 DEF Mates, NoFile, TooShort, Inv, Numbered, Alive, Starting
    <3>4. \A m \in Mates(r) : m = r
      BY <1>1, <1>3, <3>3 DEF Mates, Inv, MatesAgree
    <3> QED
      BY <3>2, <3>3, <3>4
  <2> QED
    BY <2>1, <2>2, <2>3
<1> QED
  BY <1>2, <1>3 DEF AllFound, LoneRankLives

LEMMA FullStep == FullInv /\ [Next]_vars => FullInv'
<1> SUFFICES ASSUME FullInv, [Next]_vars PROVE FullInv'
  OBVIOUS
<1>0. Inv /\ AllFound /\ LoneRankLives /\ Inv'
  BY InvStep DEF FullInv
<1>1. ASSUME NEW r \in Ranks, NEW b \in Builds, Launch(r, b)
      PROVE  AllFound' /\ LoneRankLives'
  <2>1. /\ {r} \in SUBSET Ranks /\ {r} # {} /\ Start({r}, b)
        /\ \A q \in Ranks \ {r} : info'[q] = info[q]
    BY <1>1 DEF Launch, Become
  <2> QED
    BY <1>0, <2>1, StartFound
<1>2. ASSUME NEW rs \in SUBSET Ranks, NEW b \in Builds, Restart(rs, b)
      PROVE  AllFound' /\ LoneRankLives'
  BY <1>0, <1>2, StartFound DEF Restart
<1>3. ASSUME NEW rs \in SUBSET Ranks, rs # {}, OpenToWrite(rs) \/ Write(rs)
      PROVE  AllFound' /\ LoneRankLives'
  BY <1>0, <1>3, ProcessFound
<1>4. ASSUME NEW r \in Ranks,
             OpenToRead(r) \/ NoFile(r) \/ Read(r) \/ TooShort(r) \/ Unlink(r)
               \/ Checkpoint(r) \/ Die(r)
      PROVE  AllFound' /\ LoneRankLives'
  BY <1>0, <1>4, RankFound, EndFound
<1>5. ASSUME UNCHANGED vars
      PROVE  AllFound' /\ LoneRankLives'
  BY <1>0, <1>5 DEF vars, process, file, AllFound, Found, LoneRankLives, Undisturbed, Mates
<1>6. AllFound' /\ LoneRankLives'
  BY <1>1, <1>2, <1>3, <1>4, <1>5 DEF Next
<1> QED
  BY <1>0, <1>6 DEF FullInv

LEMMA FullAlways == Spec => []FullInv
<1>1. Init => AllFound /\ LoneRankLives
  BY DEF Init, AllFound, Found, LoneRankLives
<1>2. Init => FullInv
  BY <1>1, InitInv DEF FullInv
<1> QED
  BY <1>2, FullStep, PTL DEF Spec

\* However often a rank alone is launched and restored, whatever processes
\* before it have left, and under whichever binary, it finds its addr.bin.
THEOREM LoneRanksLive == Spec => []LoneRankLives
<1>1. FullInv => LoneRankLives
  BY DEF FullInv
<1> QED
  BY <1>1, FullAlways, PTL

\* Wrappers that are initialised speak of the lower half of their process, when
\* no other process was starting at the same time.
THEOREM InfoAlwaysFits == Spec => []InfoFits
<1>1. FullInv => InfoFits
  BY DEF FullInv, InfoFits, AllFound, Found
<1> QED
  BY <1>1, FullAlways, PTL

\* Of the ranks of a process the first that asks gets addr.bin.
THEOREM FirstAlwaysGetsIn == Spec => FirstGetsIn
<1> DEFINE A == \A r \in Ranks : Leaves(r) /\ Undisturbed(r) =>
                  \E q \in Mates(r) : stage[q] = "ready"
<1>1. FullInv /\ [Next]_vars => [A]_vars
  <2> SUFFICES ASSUME FullInv, Next, NEW r \in Ranks, Leaves(r), Undisturbed(r)
               PROVE  \E q \in Mates(r) : stage[q] = "ready"
    OBVIOUS
  <2>1. PICK q \in Ranks : (NoFile(q) \/ TooShort(q)) /\ r \in Mates(q)
    BY DEF Leaves, Next, Launch, Restart, Start, OpenToWrite, Write, Creates, OpenToRead,
           NoFile, Read, TooShort, Unlink, Checkpoint, Die, Exit, Goes, Become
  <2> QED
    BY <2>1, ExitOnlyAfter DEF FullInv
<1>2. [][A]_vars => FirstGetsIn
  BY DEF FirstGetsIn
<1> QED
  BY <1>1, <1>2, FullAlways, PTL DEF Spec
=============================================================================
